---- MODULE Spec2Model ----
(***************************************************************************)
(* Strip-type detection pipeline (src/unnamed/part_001): image -> samples  *)
(* -> prominence -> three segment candidates -> winner -> classification.  *)
(*                                                                         *)
(* Numbers.  The source computes in IEEE doubles.  Here every real-valued  *)
(* quantity (lightness, saturation, prominence, scores, confidence) is a   *)
(* fixed-point integer counting 1/Scale units, and a division truncates.   *)
(* Pixel channels, indices, spans and counts are plain integers, exactly   *)
(* as in the source.  Indices are 0-based as in the source: a series is a  *)
(* function on 0..n-1, a segment list is a sequence of records.            *)
(* A prominence that is 0 here can be a rounding residue of the order of   *)
(* 1e-14 in the source; such residues are not represented.                 *)
(*                                                                         *)
(* Images are at most 480 pixels on their longer side, so that             *)
(* prepareCanvas leaves their size alone (scale = 1).                      *)
(***************************************************************************)
EXTENDS Integers, Sequences, FiniteSets, TLC

\* ------------------------------------------------------------------------
\* Fixed-point arithmetic
\* ------------------------------------------------------------------------

\* Units per 1.0 of a real-valued quantity.
Scale == 1000

Min(a, b) == IF a <= b THEN a ELSE b
Max(a, b) == IF a >= b THEN a ELSE b
Abs(a) == IF a < 0 THEN 0 - a ELSE a

\* x * (num / den), for a literal factor such as 0.24 = 24/100.
Frac(x, num, den) == (x * num) \div den

\* Math.round(a / b) for a >= 0, b > 0: halves round up.
RoundDiv(a, b) == (2 * a + b) \div (2 * b)

RECURSIVE SqrtSearch(_, _, _)
SqrtSearch(x, lo, hi) ==
  IF lo >= hi THEN lo
  ELSE LET mid == (lo + hi + 1) \div 2
       IN IF mid * mid <= x THEN SqrtSearch(x, mid, hi) ELSE SqrtSearch(x, lo, mid - 1)

\* floor(sqrt(x)) for 0 <= x < 2^31.
Sqrt(x) == SqrtSearch(x, 0, 46340)

RECURSIVE Loop(_, _, _)
\* for (; st.i < hi; ) st = F(st), where F advances st.i by one.  The run is
\* halved rather than unrolled one pass at a time.
Loop(F(_), st, hi) ==
  IF st.i >= hi THEN st
  ELSE IF st.i + 1 = hi THEN F(st)
  ELSE LET mid == Loop(F, st, (st.i + hi) \div 2) IN Loop(F, mid, hi)

RECURSIVE SumRange(_, _, _)
\* f[a] + ... + f[b] (0 when a > b).
SumRange(f, a, b) ==
  IF a > b THEN 0
  ELSE IF a = b THEN f[a]
  ELSE LET m == (a + b) \div 2 IN SumRange(f, a, m) + SumRange(f, m + 1, b)

\* The sum of the elements of a sequence.
SumSeq(s) == SumRange(s, 1, Len(s))

RECURSIVE MaxRange(_, _, _)
\* Math.max(...) over f[a..b], a <= b.
MaxRange(f, a, b) ==
  IF a >= b THEN f[a]
  ELSE LET m == (a + b) \div 2
           l == MaxRange(f, a, m)
           r == MaxRange(f, m + 1, b)
       IN IF l >= r THEN l ELSE r

RECURSIVE MinRange(_, _, _)
MinRange(f, a, b) ==
  IF a >= b THEN f[a]
  ELSE LET m == (a + b) \div 2
           l == MinRange(f, a, m)
           r == MinRange(f, m + 1, b)
       IN IF l <= r THEN l ELSE r

\* The elements of a finite set of integers in ascending order.
SortedSeq(S) ==
  [k \in 1..Cardinality(S) |-> CHOOSE x \in S : Cardinality({y \in S : y < x}) = k - 1]

\* ------------------------------------------------------------------------
\* Program constants
\* ------------------------------------------------------------------------

sampleCount == 96
colorThreshold == 12
minSpan == 3
alphaThreshold == 220

\* ------------------------------------------------------------------------
\* Axis sampler
\* ------------------------------------------------------------------------

\* getLightnessAndSaturation: lightness = ((max+min)/2/255)*100,
\* saturation = max = 0 ? 0 : ((max-min)/max)*100.
getLightnessAndSaturation(color) ==
  LET mx == Max(color[1], Max(color[2], color[3]))
      mn == Min(color[1], Min(color[2], color[3]))
  IN [lightness |-> ((mx + mn) * 100 * Scale) \div 510,
      saturation |-> IF mx = 0 THEN 0 ELSE ((mx - mn) * 100 * Scale) \div mx]

\* An image whose pixels depend on the position along the long axis only:
\* bands of colour fg, `band` pixels long, every `period` pixels from
\* `offset`, on a ground of colour bg.  A pixel is <<r, g, b, a>>.
Pixel(img, x, y) ==
  LET pos == IF img.height >= img.width THEN y ELSE x
  IN IF ((pos + img.period - img.offset) % img.period) < img.band THEN img.fg ELSE img.bg

RECURSIVE SumPixels(_, _, _, _, _, _, _)
\* The loops of averageColorRegion: <<totalR, totalG, totalB, count>> over
\* y = startY, startY+step, ... < endY and x = startX, startX+step, ... < endX,
\* counting only pixels with alpha >= 220.  (x, y) is the loop position.
SumPixels(img, x, y, startX, endX, endY, step) ==
  IF y >= endY THEN <<0, 0, 0, 0>>
  ELSE IF x >= endX THEN SumPixels(img, startX, y + step, startX, endX, endY, step)
  ELSE LET p == Pixel(img, x, y)
           rest == SumPixels(img, x + step, y, startX, endX, endY, step)
       IN IF p[4] >= alphaThreshold
          THEN <<rest[1] + p[1], rest[2] + p[2], rest[3] + p[3], rest[4] + 1>>
          ELSE rest

\* averageColorRegion; the ratios are given in hundredths or, for the
\* centre along the axis, as the exact fraction num/den.
averageColorRegion(img, cxNum, cxDen, cyNum, cyDen, widthPct, heightPct) ==
  LET centerX == RoundDiv(img.width * cxNum, cxDen)
      centerY == RoundDiv(img.height * cyNum, cyDen)
      regionWidth == Max(2, RoundDiv(img.width * widthPct, 100))
      regionHeight == Max(2, RoundDiv(img.height * heightPct, 100))
      startX == Max(0, centerX - (regionWidth \div 2))
      startY == Max(0, centerY - (regionHeight \div 2))
      endX == Min(img.width, startX + regionWidth)
      endY == Min(img.height, startY + regionHeight)
      step == Max(1, Min(regionWidth, regionHeight) \div 6)
      t == SumPixels(img, startX, startY, startX, endX, endY, step)
  IN IF t[4] = 0 THEN <<255, 255, 255>>
     ELSE <<RoundDiv(t[1], t[4]), RoundDiv(t[2], t[4]), RoundDiv(t[3], t[4])>>

\* One AxisSample from its colour.
MakeSample(color) ==
  LET ls == getLightnessAndSaturation(color)
  IN [color |-> color, lightness |-> ls.lightness, saturation |-> ls.saturation]

\* sampleAlongStripAxis: progress = 0.08 + (i/96)*(1 - 0.16)
\*                                = (768 + 84 i) / 9600.
sampleAlongStripAxis(img) ==
  [i \in 0..(sampleCount - 1) |->
     MakeSample(IF img.height >= img.width
                THEN averageColorRegion(img, 25, 100, 8 * sampleCount + 84 * i,
                                        100 * sampleCount, 50, 6)
                ELSE averageColorRegion(img, 8 * sampleCount + 84 * i,
                                        100 * sampleCount, 25, 100, 6, 50))]

\* ------------------------------------------------------------------------
\* Signal conditioner
\* ------------------------------------------------------------------------

Len0(f) == Cardinality(DOMAIN f)

toOdd(value) ==
  LET normalized == Max(1, value)
  IN IF normalized % 2 = 0 THEN normalized + 1 ELSE normalized

\* smoothSeries: centred moving average, the window cut at the ends.
smoothSeries(values, windowSize) ==
  LET n == Len0(values)
      radius == Max(0, Max(1, windowSize) \div 2)
  IN [index \in 0..(n - 1) |->
        LET lo == Max(0, index - radius)
            hi == Min(n - 1, index + radius)
        IN SumRange(values, lo, hi) \div (hi - lo + 1)]

\* The prominence series of detectStripType.
ProminenceOf(smoothed, baseline) ==
  LET n == Len0(smoothed)
      minSmoothed == MinRange(smoothed, 0, n - 1)
  IN [idx \in 0..(n - 1) |->
        LET diff == smoothed[idx] - baseline[idx]
            normalized == smoothed[idx] - minSmoothed
            blended == Max(diff, Frac(normalized, 6, 10))
        IN IF blended > 0 THEN blended ELSE 0]

SmoothedOf(samples) == smoothSeries([i \in DOMAIN samples |-> samples[i].saturation], 5)

BaselineOf(samples, smoothed) ==
  smoothSeries(smoothed, toOdd(Max(9, Len0(samples) \div 6)))

\* ------------------------------------------------------------------------
\* Segments
\* ------------------------------------------------------------------------

\* A SampleSegment is [start, end, meanColor, lightness, saturation,
\* peakStrength]; peakStrength = 0 stands for an absent (or zero) optional
\* field, which the one reader (computeSegmentStats) treats alike.

RECURSIVE Totals(_, _, _)
\* <<totalR, totalG, totalB, totalLightness, totalSaturation>> of samples a..b.
Totals(samples, a, b) ==
  IF a > b THEN <<0, 0, 0, 0, 0>>
  ELSE IF a = b
  THEN LET s == samples[a]
       IN <<s.color[1], s.color[2], s.color[3], s.lightness, s.saturation>>
  ELSE LET m == (a + b) \div 2
           l == Totals(samples, a, m)
           r == Totals(samples, m + 1, b)
       IN <<l[1] + r[1], l[2] + r[2], l[3] + r[3], l[4] + r[4], l[5] + r[5]>>

createSegmentAccumulator(sample, index) ==
  [start |-> index, end |-> index,
   totalR |-> sample.color[1], totalG |-> sample.color[2], totalB |-> sample.color[3],
   totalLightness |-> sample.lightness, totalSaturation |-> sample.saturation,
   count |-> 1]

finalizeSegment(segment) ==
  [start |-> segment.start, end |-> segment.end,
   meanColor |-> <<RoundDiv(segment.totalR, segment.count),
                   RoundDiv(segment.totalG, segment.count),
                   RoundDiv(segment.totalB, segment.count)>>,
   lightness |-> segment.totalLightness \div segment.count,
   saturation |-> segment.totalSaturation \div segment.count,
   peakStrength |-> 0]

\* A colorDistance that takes the largest channel difference instead of
\* the Euclidean length.
colorDistanceLargestChannel(num, den, b) ==
  LET d1 == (num[1] - den * b[1]) * (num[1] - den * b[1])
      d2 == (num[2] - den * b[2]) * (num[2] - den * b[2])
      d3 == (num[3] - den * b[3]) * (num[3] - den * b[3])
  IN Max(d1, Max(d2, d3))

\* colorDistance(a, b)^2 * den^2 where a = num/den componentwise (the running
\* mean of a segment: totals over count) and b is a sample colour.  Exact.
colorDistanceSq(num, den, b) ==
  (num[1] - den * b[1]) * (num[1] - den * b[1])
  + (num[2] - den * b[2]) * (num[2] - den * b[2])
  + (num[3] - den * b[3]) * (num[3] - den * b[3])

\* colorDistance(prevColor, sample.color) > colorThreshold
BreaksSegment(cur, sample) ==
  colorDistanceSq(<<cur.totalR, cur.totalG, cur.totalB>>, cur.count, sample.color)
    > colorThreshold * colorThreshold * cur.count * cur.count

\* The body of the for loop of clusterSamples for i = st.i >= 1; st holds
\* i, currentSegment and segments.
clusterStep(samples, st) ==
  LET sample == samples[st.i]
      cur == st.currentSegment
  IN IF BreaksSegment(cur, sample)
     THEN [i |-> st.i + 1,
           currentSegment |-> createSegmentAccumulator(sample, st.i),
           segments |-> Append(st.segments, finalizeSegment(cur))]
     ELSE [i |-> st.i + 1,
           currentSegment |->
             [cur EXCEPT !.end = st.i,
                         !.totalR = @ + sample.color[1],
                         !.totalG = @ + sample.color[2],
                         !.totalB = @ + sample.color[3],
                         !.totalLightness = @ + sample.lightness,
                         !.totalSaturation = @ + sample.saturation,
                         !.count = @ + 1],
           segments |-> st.segments]

clusterSamples(samples) ==
  IF Len0(samples) = 0 THEN <<>>
  ELSE LET first == [i |-> 1,
                     currentSegment |-> createSegmentAccumulator(samples[0], 0),
                     segments |-> <<>>]
           last == Loop(LAMBDA st : clusterStep(samples, st), first, Len0(samples))
       IN Append(last.segments, finalizeSegment(last.currentSegment))

\* A filter that drops short segments only.
IsLongSegment(segment) == segment.end - segment.start + 1 >= minSpan

\* The test of filterPadSegments for one segment.
IsPadSegment(segment) ==
  /\ segment.end - segment.start + 1 >= minSpan
  /\ ~(segment.lightness > 92 * Scale /\ segment.saturation < 6 * Scale)

filterPadSegments(segments) == SelectSeq(segments, IsPadSegment)

createSegmentFromRange(samples, start, end, peakStrength) ==
  LET n == Len0(samples)
      clampedStart == Max(0, Min(start, n - 1))
      clampedEnd == Max(clampedStart, Min(end, n - 1))
      count == clampedEnd - clampedStart + 1
      t == Totals(samples, clampedStart, clampedEnd)
  IN [start |-> clampedStart, end |-> clampedEnd,
      meanColor |-> <<RoundDiv(t[1], count), RoundDiv(t[2], count), RoundDiv(t[3], count)>>,
      lightness |-> t[4] \div count,
      saturation |-> t[5] \div count,
      peakStrength |-> peakStrength]

\* getMaxInRange: the largest value in start..end, at least 0.
getMaxInRange(prominence, start, end) ==
  IF start > end THEN 0 ELSE Max(0, MaxRange(prominence, start, end))

\* findPeakIndexInRange: the first index of the largest value.
findPeakIndexInRange(start, end, prominence) ==
  CHOOSE i \in start..end :
    /\ \A j \in start..end : prominence[j] <= prominence[i]
    /\ \A j \in start..(i - 1) : prominence[j] < prominence[i]

Span(segment) == segment.end - segment.start + 1

\* ------------------------------------------------------------------------
\* Segment statistics
\* ------------------------------------------------------------------------

NoStats ==
  [present |-> FALSE, averageStrength |-> 0, minStrength |-> 0,
   spanMean |-> 0, spanStdDev |-> 0, gapRatio |-> 0]

\* computeSegmentStats (null is NoStats).  With S the sum of the n spans,
\* spanStdDev = sqrt(sum (span - S/n)^2 / n) = sqrt(n * sum span^2 - S^2) / n.
computeSegmentStats(segments, prominence) ==
  IF Len(segments) = 0 THEN NoStats
  ELSE
    LET n == Len(segments)
        spans == [i \in 1..n |-> Max(1, Span(segments[i]))]
        coverage == SumSeq(spans)
        totalRange == Max(1, segments[n].end - segments[1].start + 1)
        gapRatio == Min(Scale, Max(0, ((totalRange - coverage) * Scale) \div totalRange))
        strengths == [i \in 1..n |->
                        IF segments[i].peakStrength > 0 THEN segments[i].peakStrength
                        ELSE getMaxInRange(prominence, segments[i].start, segments[i].end)]
        sumStrength == SumSeq(strengths)
        sumSquares == SumSeq([i \in 1..n |-> spans[i] * spans[i]])
    IN [present |-> TRUE,
        averageStrength |-> sumStrength \div n,
        minStrength |-> MinRange(strengths, 1, n),
        spanMean |-> (coverage * Scale) \div n,
        spanStdDev |-> (Sqrt((n * sumSquares - coverage * coverage) * 100) * (Scale \div 10)) \div n,
        gapRatio |-> gapRatio]

\* ------------------------------------------------------------------------
\* Cluster strategy: refinement and normalisation
\* ------------------------------------------------------------------------

\* The first index of the smallest value in lo..hi (the scan of
\* findSplitIndexInRange keeps the first strict minimum).
FirstMinIndex(prominence, lo, hi) ==
  CHOOSE i \in lo..hi :
    /\ \A j \in lo..hi : prominence[i] <= prominence[j]
    /\ \A j \in lo..(i - 1) : prominence[j] > prominence[i]

\* A split search that accepts the minimum however shallow the valley is.
findSplitIndexAtAnyMinimum(start, end, prominence, minSpanArg) ==
  IF end - start + 1 < minSpanArg * 2 + 2 THEN -1
  ELSE
    LET minIndex == FirstMinIndex(prominence, start + minSpanArg, end - minSpanArg)
        leftMax == getMaxInRange(prominence, start, minIndex - 1)
        rightMax == getMaxInRange(prominence, minIndex + 1, end)
    IN IF Min(leftMax, rightMax) <= 0 THEN -1 ELSE minIndex

\* findSplitIndexInRange; null is -1.
findSplitIndexInRange(start, end, prominence, minSpanArg) ==
  IF end - start + 1 < minSpanArg * 2 + 2 THEN -1
  ELSE
    LET minIndex == FirstMinIndex(prominence, start + minSpanArg, end - minSpanArg)
        minValue == prominence[minIndex]
        leftMax == getMaxInRange(prominence, start, minIndex - 1)
        rightMax == getMaxInRange(prominence, minIndex + 1, end)
        peakReference == Min(leftMax, rightMax)
    IN IF peakReference <= 0 THEN -1
       ELSE IF minValue * 100 > peakReference * 55 THEN -1
       ELSE minIndex

RECURSIVE processRange(_, _, _, _)
\* processRange of refineSegmentsByProminence: the ranges <<start, end>> it
\* pushes, in order.
processRange(start0, end0, prominence, maxSpan) ==
  LET n == Len0(prominence)
      start == Max(0, Min(start0, n - 1))
      end == Max(start, Min(end0, n - 1))
      span == end - start + 1
      splitIndex == findSplitIndexInRange(start, end, prominence, minSpan)
  IN IF span <= minSpan THEN << <<start, end>> >>
     ELSE IF splitIndex # -1 /\ span > maxSpan
          THEN processRange(start, splitIndex, prominence, maxSpan)
               \o processRange(splitIndex + 1, end, prominence, maxSpan)
     ELSE << <<start, end>> >>

\* for (const segment of segments) processRange(segment.start, segment.end)
refineStep(segments, prominence, maxSpan, st) ==
  [i |-> st.i + 1,
   ranges |-> st.ranges \o processRange(segments[st.i].start, segments[st.i].end,
                                        prominence, maxSpan)]

refineSegmentsByProminence(segments, prominence, samples) ==
  IF Len(segments) = 0 THEN <<>>
  ELSE
    LET targetSpan == Max(minSpan + 1, RoundDiv(Len0(prominence), 6))
        maxSpan == Max(targetSpan + 4, minSpan + 2)
        pushed == Loop(LAMBDA st : refineStep(segments, prominence, maxSpan, st),
                       [i |-> 1, ranges |-> <<>>], Len(segments) + 1).ranges
        refinedRanges == SelectSeq(pushed, LAMBDA r : r[1] <= r[2])
    IN [k \in 1..Len(refinedRanges) |->
          createSegmentFromRange(samples, refinedRanges[k][1], refinedRanges[k][2],
            getMaxInRange(prominence, refinedRanges[k][1], refinedRanges[k][2]))]

\* [...segments].sort((a, b) => a.start - b.start); the sort is stable.
SortByStart(segments) ==
  LET n == Len(segments)
      Before(a, b) == segments[a].start < segments[b].start
                      \/ (segments[a].start = segments[b].start /\ a < b)
  IN [k \in 1..n |->
        segments[CHOOSE a \in 1..n : Cardinality({b \in 1..n : Before(b, a)}) = k - 1]]

\* A merge loop that always picks the first pair.
MergeIndexFirst(normalized) == 1

\* The index (1-based) the merge loop of normalizeSegmentCount picks: the
\* first adjacent pair with the smallest combined span.
MergeIndex(normalized) ==
  LET n == Len(normalized)
      combined == [i \in 1..(n - 1) |-> Span(normalized[i]) + Span(normalized[i + 1])]
  IN CHOOSE i \in 1..(n - 1) :
       /\ \A j \in 1..(n - 1) : combined[i] <= combined[j]
       /\ \A j \in 1..(i - 1) : combined[j] > combined[i]

\* A merge that replaces only the first segment of the pair
\* (splice(mergeIndex, 1, merged)) and leaves the second in the list.
mergeStepKeepingSecond(samples, prominence, st) ==
  LET normalized == st.normalized
      mergeIndex == MergeIndex(normalized)
      mergedStart == normalized[mergeIndex].start
      mergedEnd == normalized[mergeIndex + 1].end
      merged == createSegmentFromRange(samples, mergedStart, mergedEnd,
                  getMaxInRange(prominence, mergedStart, mergedEnd))
  IN [i |-> st.i + 1,
      normalized |-> SubSeq(normalized, 1, mergeIndex - 1) \o <<merged>>
                     \o SubSeq(normalized, mergeIndex + 1, Len(normalized))]

\* One pass of while (normalized.length > maxCount): the picked pair merged.
mergeStep(samples, prominence, st) ==
  LET normalized == st.normalized
      mergeIndex == MergeIndex(normalized)
      mergedStart == normalized[mergeIndex].start
      mergedEnd == normalized[mergeIndex + 1].end
      merged == createSegmentFromRange(samples, mergedStart, mergedEnd,
                  getMaxInRange(prominence, mergedStart, mergedEnd))
  IN [i |-> st.i + 1,
      normalized |-> SubSeq(normalized, 1, mergeIndex - 1) \o <<merged>>
                     \o SubSeq(normalized, mergeIndex + 2, Len(normalized))]

normalizeSegmentCount(segments, samples, prominence, minCount, maxCount) ==
  IF Len(segments) = 0 THEN segments
  ELSE LET sorted == SortByStart(segments)
           normalized == Loop(LAMBDA st : mergeStep(samples, prominence, st),
                              [i |-> 0, normalized |-> sorted],
                              Len(sorted) - maxCount).normalized
       IN IF Len(normalized) < minCount THEN segments ELSE normalized

\* candidateSegments of detectStripType before normalisation (lines 70-73).
CandidateSegments(raw, refined) ==
  LET filteredRawSegments == filterPadSegments(raw)
      filteredRefinedSegments == filterPadSegments(refined)
  IN IF Len(filteredRefinedSegments) >= Len(filteredRawSegments)
     THEN filteredRefinedSegments ELSE filteredRawSegments

\* Lines 75-78 of detectStripType: the segments of the cluster candidate,
\* from the raw cluster segments of line 68 and the normalised list of
\* line 74.
ClusterSegments(raw, normalized) ==
  LET clusteredSegments == filterPadSegments(normalized)
  IN IF Len(clusteredSegments) = 0 THEN filterPadSegments(raw) ELSE clusteredSegments

\* ------------------------------------------------------------------------
\* Score strategy
\* ------------------------------------------------------------------------

getPadScore(sample) ==
  LET brightnessPenalty ==
        IF sample.lightness > 90 * Scale THEN Frac(sample.lightness - 90 * Scale, 3, 2) ELSE 0
  IN Max(0, sample.saturation - brightnessPenalty)

\* The body of the for loop of buildSegmentsFromScores for i = st.i; the run
\* totals of the source are taken over startIndex..i-1 when the run closes.
scoreStep(samples, isPad, st) ==
  IF isPad[st.i]
  THEN [st EXCEPT !.i = @ + 1,
                  !.inSegment = TRUE,
                  !.startIndex = IF st.inSegment THEN @ ELSE st.i]
  ELSE IF st.inSegment
       THEN [st EXCEPT !.i = @ + 1,
                       !.inSegment = FALSE,
                       !.segments = Append(@, createSegmentFromRange(samples, st.startIndex,
                                                                      st.i - 1, 0))]
       ELSE [st EXCEPT !.i = @ + 1]

buildSegmentsFromScores(samples) ==
  IF Len0(samples) = 0 THEN <<>>
  ELSE
    LET n == Len0(samples)
        scores == [i \in 0..(n - 1) |-> getPadScore(samples[i])]
        maxScore == MaxRange(scores, 0, n - 1)
        minScore == MinRange(scores, 0, n - 1)
        dynamicThreshold == minScore + Frac(maxScore - minScore, 35, 100)
        scoreThreshold == Max(6 * Scale, dynamicThreshold)
        isPad == [i \in 0..(n - 1) |-> scores[i] >= scoreThreshold]
        last == Loop(LAMBDA st : scoreStep(samples, isPad, st),
                     [i |-> 0, inSegment |-> FALSE, startIndex |-> 0, segments |-> <<>>], n)
    IN IF maxScore <= 0 THEN <<>>
       ELSE IF last.inSegment
            THEN Append(last.segments, createSegmentFromRange(samples, last.startIndex, n - 1, 0))
            ELSE last.segments

\* ------------------------------------------------------------------------
\* Peak strategy
\* ------------------------------------------------------------------------

\* candidates.sort((a, b) => b.value - a.value) over candidates listed by
\* ascending index; the sort is stable, so equal values keep index order.
ByStrength(cands, prominence) ==
  LET Before(a, b) == prominence[a] > prominence[b]
                      \/ (prominence[a] = prominence[b] /\ a < b)
  IN [k \in 1..Cardinality(cands) |->
        CHOOSE a \in cands : Cardinality({b \in cands : Before(b, a)}) = k - 1]

\* A greedy loop that takes candidates however close to a peak already taken.
pickStepAnyDistance(sorted, minDistance, limit, st) ==
  IF Cardinality(st.peaks) >= limit
  THEN [st EXCEPT !.i = @ + 1]
  ELSE [st EXCEPT !.i = @ + 1, !.peaks = @ \cup {sorted[st.i]}]

\* One pass of the greedy loop shared by selectPeakIndices and
\* selectTopProminenceIndices: skip a candidate closer than minDistance to a
\* peak already taken; nothing is taken once `limit` peaks are (the break).
pickStep(sorted, minDistance, limit, st) ==
  LET c == sorted[st.i]
  IN IF Cardinality(st.peaks) >= limit
        \/ \E existing \in st.peaks : Abs(existing - c) < minDistance
     THEN [st EXCEPT !.i = @ + 1]
     ELSE [st EXCEPT !.i = @ + 1, !.peaks = @ \cup {c}]

pickPeaks(cands, prominence, minDistance, limit) ==
  LET sorted == ByStrength(cands, prominence)
  IN Loop(LAMBDA st : pickStep(sorted, minDistance, limit, st),
          [i |-> 1, peaks |-> {}], Len(sorted) + 1).peaks

\* The candidate test of selectPeakIndices.
IsLocalMaximum(prominence, i, minProminence) ==
  /\ prominence[i] >= minProminence
  /\ prominence[i] >= prominence[i - 1]
  /\ prominence[i] >= prominence[i + 1]

selectPeakIndices(prominence, minProminence, minDistance) ==
  LET n == Len0(prominence)
      candidates == {i \in 1..(n - 2) : IsLocalMaximum(prominence, i, minProminence)}
  IN SortedSeq(pickPeaks(candidates, prominence, minDistance, 8))

selectTopProminenceIndices(prominence, targetCount, minDistance) ==
  LET candidates == {i \in DOMAIN prominence : prominence[i] > 0}
  IN SortedSeq(pickPeaks(candidates, prominence, minDistance, targetCount))

\* while (start > 0 && prominenceSeries[start] > softDrop && start > limit) start--
\* ends at the first index, going down from start, where the test fails.
growStart(start, prominence, softDrop, limit) ==
  LET Goes(s) == s > 0 /\ prominence[s] > softDrop /\ s > limit
  IN CHOOSE s \in 0..start : ~Goes(s) /\ \A t \in (s + 1)..start : Goes(t)

\* while (end < count - 1 && prominenceSeries[end] > softDrop && end < limit) end++
\* ends at the first index, going up from end, where the test fails.
growEnd(end, prominence, softDrop, limit, count) ==
  LET Goes(e) == e < count - 1 /\ prominence[e] > softDrop /\ e < limit
  IN CHOOSE e \in end..Max(end, count - 1) : ~Goes(e) /\ \A t \in end..(e - 1) : Goes(t)

\* The body of peaks.map(...) in buildRangesFromPeaks for the peak at idx
\* (1-based); boundaries[k] lies between peaks k and k+1.
InitialRange(peaks, idx, boundaries, prominence, count, defaultHalfWidth) ==
  LET peakIndex == peaks[idx]
      isFirst == idx = 1
      isLast == idx = Len(peaks)
      startBoundary == IF isFirst THEN Max(0, peakIndex - defaultHalfWidth)
                       ELSE boundaries[idx - 1] + 1
      endBoundary == IF isLast THEN Min(count - 1, peakIndex + defaultHalfWidth)
                     ELSE boundaries[idx]
      start0 == Max(0, Min(startBoundary, peakIndex))
      end0 == Min(count - 1, Max(endBoundary, peakIndex))
      short == end0 - start0 + 1 < minSpan
      deficit == minSpan - (end0 - start0 + 1)
      extendLeft == Min(deficit, start0)
      start1 == IF short THEN start0 - extendLeft ELSE start0
      end1 == IF short THEN Min(count - 1, end0 + (deficit - extendLeft)) ELSE end0
      softDrop == Max(Scale, Frac(prominence[peakIndex], 18, 100))
      start2 == growStart(start1, prominence, softDrop, IF isFirst THEN 0 ELSE boundaries[idx - 1])
      end2 == growEnd(end1, prominence, softDrop,
                      IF isLast THEN count - 1 ELSE boundaries[idx], count)
  IN [start |-> Max(0, start2), end |-> Min(count - 1, end2), peakIndex |-> peakIndex]

\* A forward pass that leaves the range as it was grown.
ForwardStepSkipped(prev, current, count) == current

\* One step of the forward pass: ranges[i] pushed right of ranges[i - 1].
ForwardStep(prev, current, count) ==
  LET s1 == IF current.start <= prev.end THEN Min(count - 1, prev.end + 1) ELSE current.start
      s2 == IF s1 > current.end THEN Max(prev.end + 1, current.end - (minSpan - 1)) ELSE s1
  IN [current EXCEPT !.start = s2]

RECURSIVE forwardPass(_, _, _)
forwardPass(ranges, i, count) ==
  IF i > Len(ranges) THEN ranges
  ELSE forwardPass([ranges EXCEPT ![i] = ForwardStep(ranges[i - 1], ranges[i], count)],
                   i + 1, count)

\* One step of the backward pass: ranges[i] pulled left of ranges[i + 1].
BackwardStep(current, next) ==
  IF current.end >= next.start
  THEN [current EXCEPT !.end = Max(current.start + minSpan - 1, next.start - 1)]
  ELSE current

RECURSIVE backwardPass(_, _)
backwardPass(ranges, i) ==
  IF i < 1 THEN ranges
  ELSE backwardPass([ranges EXCEPT ![i] = BackwardStep(ranges[i], ranges[i + 1])], i - 1)

buildRangesFromPeaks(peaks, prominence, count, minDistance) ==
  LET defaultHalfWidth == Max(3, RoundDiv(minDistance, 2) + 1)
      boundaries == [i \in 1..(Len(peaks) - 1) |-> (peaks[i] + peaks[i + 1]) \div 2]
      initial == [idx \in 1..Len(peaks) |->
                    InitialRange(peaks, idx, boundaries, prominence, count, defaultHalfWidth)]
      clamped == backwardPass(forwardPass(initial, 2, count), Len(peaks) - 1)
  IN SelectSeq(clamped, LAMBDA range : range.start <= range.end)

\* The first k entries of [...peakIndices].sort((a, b) => prominence[b] -
\* prominence[a]), as a set.
TopBy(cands, prominence, k) ==
  LET sorted == ByStrength(cands, prominence)
  IN {sorted[i] : i \in 1..Min(k, Len(sorted))}

SeqToSet(s) == {s[i] : i \in 1..Len(s)}

\* minDistance of buildPeakCandidate (line 459).
MinDistanceOf(count) == Max(4, RoundDiv(count, 18))

\* The chosen peaks of buildPeakCandidate, ascending (empty when the
\* candidate is returned empty).
ChosenPeaks(prominence) ==
  LET count == Len0(prominence)
      maxProminence == MaxRange(prominence, 0, count - 1)
      minProminence == Max(2 * Scale, Frac(maxProminence, 24, 100))
      minDistance == MinDistanceOf(count)
      strict == selectPeakIndices(prominence, minProminence, minDistance)
      relaxedThreshold == Max(Frac(Scale, 14, 10), Frac(maxProminence, 18, 100))
      relaxedDistance == Max(3, RoundDiv(minDistance * 75, 100))
      relaxedPeaks == selectPeakIndices(prominence, relaxedThreshold, relaxedDistance)
      afterRelax == IF Len(strict) < 4 /\ Len(relaxedPeaks) > Len(strict)
                    THEN relaxedPeaks ELSE strict
      peakIndices ==
        IF Len(afterRelax) = 0
        THEN selectTopProminenceIndices(prominence, Min(6, Max(3, RoundDiv(count, 24))),
                                        minDistance)
        ELSE afterRelax
  IN IF count = 0 \/ maxProminence <= 0 THEN <<>>
     ELSE SortedSeq(TopBy(SeqToSet(peakIndices), prominence, Min(6, Len(peakIndices))))

\* ranges of buildPeakCandidate (line 492); none when the candidate was
\* returned empty before.
PeakRanges(chosenPeaks, prominence, count) ==
  IF Len(chosenPeaks) = 0 THEN <<>>
  ELSE buildRangesFromPeaks(chosenPeaks, prominence, count, MinDistanceOf(count))

\* segments of buildPeakCandidate: one per range (lines 493-495).
RangeSegments(samples, prominence, peakRanges) ==
  [k \in 1..Len(peakRanges) |->
     createSegmentFromRange(samples, peakRanges[k].start, peakRanges[k].end,
                            prominence[peakRanges[k].peakIndex])]

\* usableSegments of buildPeakCandidate (lines 496-498).
UsableSegments(segments) ==
  LET filteredSegments == filterPadSegments(segments)
  IN IF Len(filteredSegments) >= Max(2, (Len(segments) * 6) \div 10)
     THEN filteredSegments ELSE segments

\* The segments of the peak candidate (buildPeakCandidate, lines 493-498).
PeakSegments(samples, prominence, peakRanges) ==
  UsableSegments(RangeSegments(samples, prominence, peakRanges))

\* ------------------------------------------------------------------------
\* Candidate evaluator
\* ------------------------------------------------------------------------

\* -Infinity of evaluateSegmentCandidate and selectBestCandidate.
NegInfinity == 0 - 1000000 * Scale

MakeCandidate(source, segments, prominence) ==
  [source |-> source, segments |-> segments,
   stats |-> computeSegmentStats(segments, prominence)]

\* stats ? 1 - min(1, spanStdDev / max(1, spanMean)) clamped at 0 : missing
SpanConsistency(stats, missing) ==
  IF stats.present
  THEN Max(0, Scale - Min(Scale, (stats.spanStdDev * Scale) \div Max(Scale, stats.spanMean)))
  ELSE missing

evaluateSegmentCandidate(candidate) ==
  LET padCount == Len(candidate.segments)
      stats == candidate.stats
      closenessToSix == Scale - Min(Scale, (Abs(padCount - 6) * Scale) \div 3)
      closenessToThree == Scale - Min(Scale, (Abs(padCount - 3) * Scale) \div 2)
      padPreference ==
        IF closenessToSix > closenessToThree + Frac(Scale, 15, 100)
        THEN Frac(closenessToSix, 12, 10)
        ELSE Max(Frac(closenessToSix, 105, 100), closenessToThree)
      strengthScore == IF stats.present THEN Min(Scale, stats.averageStrength \div 12)
                       ELSE Frac(Scale, 25, 100)
      gapScore == IF stats.present THEN Max(0, Scale - Min(Scale, stats.gapRatio * 2))
                  ELSE Frac(Scale, 25, 100)
      spanScore == SpanConsistency(stats, Frac(Scale, 25, 100))
      sourceBoost == IF candidate.source = "peak" THEN Frac(Scale, 5, 100) ELSE 0
      highPadBonus == IF padCount >= 5 THEN Frac(Scale, 12, 100) ELSE 0
      lowPadPenalty == IF padCount <= 3 THEN Frac(Scale, 8, 100) ELSE 0
  IN IF padCount = 0 THEN NegInfinity
     ELSE Frac(padPreference, 6, 10) + Frac(strengthScore, 25, 100) + Frac(gapScore, 1, 10)
          + Frac(spanScore, 5, 100) + sourceBoost + highPadBonus - lowPadPenalty

RECURSIVE bestLoop(_, _, _, _)
\* The for loop of selectBestCandidate: the index of the best candidate so
\* far (0 for null) and its score.
bestLoop(candidates, k, bestIndex, bestScore) ==
  IF k > Len(candidates) THEN bestIndex
  ELSE LET score == evaluateSegmentCandidate(candidates[k])
       IN IF score > bestScore THEN bestLoop(candidates, k + 1, k, score)
          ELSE bestLoop(candidates, k + 1, bestIndex, bestScore)

\* A selection in which the last of several equal best candidates wins.
selectLastBestCandidate(candidates, fallback) ==
  IF Len(candidates) = 0 THEN fallback
  ELSE candidates[CHOOSE k \in 1..Len(candidates) :
                    \A j \in 1..Len(candidates) :
                      \/ evaluateSegmentCandidate(candidates[j]) < evaluateSegmentCandidate(candidates[k])
                      \/ /\ evaluateSegmentCandidate(candidates[j]) = evaluateSegmentCandidate(candidates[k])
                         /\ j <= k]

\* selectBestCandidate(candidates) ?? fallback
selectBestCandidate(candidates, fallback) ==
  LET bestIndex == bestLoop(candidates, 1, 0, NegInfinity)
  IN IF Len(candidates) = 0 \/ bestIndex = 0 THEN fallback ELSE candidates[bestIndex]

\* ------------------------------------------------------------------------
\* Classifier
\* ------------------------------------------------------------------------

\* A classifier that switches to the six-pad family from four pads on.
inferStripTypeFromFour(padCount) ==
  IF padCount <= 0 THEN "null"
  ELSE IF padCount >= 4 THEN "6-in-1" ELSE "3-in-1"

inferStripType(padCount) ==
  IF padCount <= 0 THEN "null"
  ELSE IF padCount >= 6 THEN "6-in-1"
  ELSE IF padCount <= 2 THEN "3-in-1"
  ELSE LET distanceToSix == Abs(padCount - 6)
           distanceToThree == Abs(padCount - 3)
       IN IF distanceToSix < distanceToThree THEN "6-in-1"
          ELSE IF distanceToThree < distanceToSix THEN "3-in-1"
          ELSE IF padCount >= 4 THEN "6-in-1" ELSE "3-in-1"

\* The weighted sum of calculateConfidence (lines 972-996), before the clamp.
ConfidenceSum(segments, padCount, inferredType, context) ==
  LET countExpectation == IF inferredType = "6-in-1" THEN 6 ELSE 3
      countScore ==
        Max(0, Scale - (Min(countExpectation, Abs(countExpectation - padCount)) * Scale)
                         \div countExpectation)
      stats == context.stats
      strengthScore == IF stats.present THEN Min(Scale, stats.averageStrength \div 12)
                       ELSE Frac(Scale, 3, 10)
      strengthUniformity ==
        IF stats.present /\ stats.averageStrength > 0
        THEN Min(Scale, (stats.minStrength * Scale) \div stats.averageStrength)
        ELSE Frac(Scale, 3, 10)
      stabilityScore == Frac(strengthScore, 7, 10) + Frac(strengthUniformity, 3, 10)
      consistencyScore == SpanConsistency(stats, Frac(Scale, 4, 10))
      gapScore == IF stats.present
                  THEN Max(0, Scale - Min(Frac(Scale, 9, 10), Frac(stats.gapRatio, 16, 10)))
                  ELSE Frac(Scale, 4, 10)
      peakBonus == IF context.source = "peak" THEN Frac(Scale, 7, 100) ELSE 0
      fallbackPenalty == IF context.fallbackUsed THEN Frac(Scale, 12, 100) ELSE 0
      coverageBonus == IF Len(segments) > 1
                       THEN Min(Frac(Scale, 5, 100), (Len(segments) - 1) * Frac(Scale, 1, 100))
                       ELSE 0
  IN Frac(Scale, 28, 100) + Frac(countScore, 35, 100) + Frac(stabilityScore, 25, 100)
     + Frac(consistencyScore, 15, 100) + Frac(gapScore, 15, 100)
     + peakBonus + coverageBonus - fallbackPenalty

\* The weighted sum returned as it is.
NoClamp(confidence) == confidence

\* Math.min(1, Math.max(0, confidence))
ClampUnit(confidence) == Min(Scale, Max(0, confidence))

\* calculateConfidence without the early return of line 971.
calculateConfidenceUnguarded(segments, padCount, inferredType, context) ==
  ClampUnit(ConfidenceSum(segments, padCount, inferredType, context))

calculateConfidence(segments, padCount, inferredType, context) ==
  IF inferredType = "null" \/ padCount = 0 THEN 0
  ELSE ClampUnit(ConfidenceSum(segments, padCount, inferredType, context))

\* ------------------------------------------------------------------------
\* detectStripType (lines 44-148)
\* ------------------------------------------------------------------------

\* buildPeakCandidate gets as far as its peak-analysis trace (lines 448-482).
PeakAnalysisReached(prominence) ==
  Len0(prominence) > 0 /\ MaxRange(prominence, 0, Len0(prominence) - 1) > 0

\* A trace block that reorders the candidates it prints, peak first.
TraceCandidatesReordered(allCandidates, on) ==
  IF on THEN [k \in 1..Len(allCandidates) |-> allCandidates[Len(allCandidates) + 1 - k]]
  ELSE allCandidates

\* allCandidates after the trace block of lines 95-107, which only reads it.
TraceCandidates(allCandidates, on) == allCandidates

Degenerate == [padCount |-> 0, inferredType |-> "null", confidence |-> 0]

\* A detector without the catch clause: the async function rejects.
Rethrow(error) == [outcome |-> "rejected", result |-> Degenerate]

\* The catch clause: whatever was thrown, the call resolves to the
\* degenerate result.
CatchAll(error) == [outcome |-> "resolved", result |-> Degenerate]

\* ------------------------------------------------------------------------
\* useAlertDialog keeping the resolver in a ref
\* (src/components/pool-volume-calculator.tsx, lines 334-382)
\* ------------------------------------------------------------------------

\* useState<AlertDialogOptions>({ description: "" }) (line 336): no cancel
\* label and no callbacks.  An onConfirm or onCancel option is "absent", a
\* function that "throws", or one returning a promise that "resolves" or
\* "rejects" later.
NoOptions == [cancelLabel |-> FALSE, onConfirm |-> "absent", onCancel |-> "absent"]

\* Calling the resolve function of promise p (0: nothing stored).  A promise
\* returned by showAlert records how often its resolve function was called,
\* and on behalf of which alert (-1 not yet, 0 an open-change, k > 0 a
\* button pressed while the alert of the k-th showAlert call showed).
Resolve(promises, p, by) ==
  IF p = 0
    THEN promises
    ELSE [promises EXCEPT ![p] =
            [resolutions |-> @.resolutions + 1,
             resolvedBy |-> IF @.resolutions = 0 THEN by ELSE @.resolvedBy]]

\* The hook after construction (lines 335-337).
NoDialog == [isOpen |-> FALSE, options |-> NoOptions, resolveRef |-> 0,
             promises |-> <<>>, handlers |-> <<>>]

\* closeDialog (lines 341-346), called on behalf of alert `by`.
closeDialog(d, by) ==
  [d EXCEPT !.resolveRef = 0,
            !.isOpen = FALSE,
            !.promises = Resolve(d.promises, d.resolveRef, by)]

\* handleOpenChange (lines 364-374).
handleOpenChange(d, open) ==
  IF ~open /\ d.resolveRef # 0
    THEN [d EXCEPT !.isOpen = open,
                   !.resolveRef = 0,
                   !.promises = Resolve(d.promises, d.resolveRef, 0)]
    ELSE [d EXCEPT !.isOpen = open]

\* showAlert (lines 376-382): the new promise's resolve function replaces
\* whatever the ref held.
showAlert(d, opts) ==
  [d EXCEPT !.promises = Append(d.promises, [resolutions |-> 0, resolvedBy |-> -1]),
            !.resolveRef = Len(d.promises) + 1,
            !.options = opts,
            !.isOpen = TRUE]

\* handleConfirm and handleCancel (lines 348-362) up to the await: a callback
\* that is absent or throws reaches the finally block at once, one that
\* returns a promise leaves the handler waiting for it.  The alert on screen
\* is the one of the latest showAlert call.
handleButton(d, button) ==
  LET kind == IF button = "confirm" THEN d.options.onConfirm ELSE d.options.onCancel
  IN IF kind \in {"resolves", "rejects"}
       THEN [d EXCEPT !.handlers =
               Append(d.handlers, [button |-> button, pressedOn |-> Len(d.promises)])]
       ELSE closeDialog(d, Len(d.promises))

\* The finally block of a waiting handler (lines 351-353, 359-361).
settleHandler(d, h) ==
  closeDialog([d EXCEPT !.handlers =
                 SubSeq(d.handlers, 1, h - 1) \o SubSeq(d.handlers, h + 1, Len(d.handlers))],
              d.handlers[h].pressedOn)

\* ------------------------------------------------------------------------
\* useAlertDialog keeping its close handler on window (src/unnamed/part_000)
\* ------------------------------------------------------------------------

\* The hook after construction (lines 22-25), its options without title or
\* variant; handler is the promise whose
\* handleClose is stored in window.__alertDialogResolve (0: the property is
\* absent), opener the showAlert call that opened the dialog.
NoWindowDialog == [isOpen |-> FALSE, options |-> [titled |-> FALSE, variant |-> "default"],
                   handler |-> 0,
                   promises |-> <<>>, opener |-> 0]

\* showAlert (lines 27-44).
showWindowAlert(w, opts) ==
  [w EXCEPT !.options = opts,
            !.isOpen = TRUE,
            !.promises = Append(w.promises, 0),
            !.handler = Len(w.promises) + 1,
            !.opener = IF w.isOpen THEN w.opener ELSE Len(w.promises) + 1]

\* handleClose of promise p (lines 34-37).
handleClose(w, p) ==
  [w EXCEPT !.isOpen = FALSE, !.promises[p] = @ + 1]

\* handleAction (lines 46-52).
handleAction(w) ==
  IF w.handler # 0
    THEN [handleClose(w, w.handler) EXCEPT !.handler = 0, !.isOpen = FALSE]
    ELSE [w EXCEPT !.isOpen = FALSE]

\* onOpenChange={setIsOpen} (line 55).
setIsOpen(w, open) == [w EXCEPT !.isOpen = open]

\* ------------------------------------------------------------------------
\* PoolVolumeCalculator (src/components/pool-volume-calculator.tsx)
\* ------------------------------------------------------------------------

\* A JavaScript number in thousandths, or NaN.
NaN == [nan |-> TRUE, value |-> 0]
isNaN(x) == x.nan

DigitChars == {"0", "1", "2", "3", "4", "5", "6", "7", "8", "9"}

\* parseFloat of a text given as its characters (called at lines 83-84, 100,
\* 115, 129, 144): blanks are skipped, then an optional sign, digits and a
\* fraction are read and whatever follows is ignored; NaN when no digit was
\* read.  Exponents and "Infinity" do not occur in the texts drawn.
parseFloat(text) ==
  LET DigitValue(c) ==
        CASE c = "0" -> 0 [] c = "1" -> 1 [] c = "2" -> 2 [] c = "3" -> 3
          [] c = "4" -> 4 [] c = "5" -> 5 [] c = "6" -> 6 [] c = "7" -> 7
          [] c = "8" -> 8 [] c = "9" -> 9
      \* the first position at or after i whose character is outside chars
      SkipChars(i, chars) ==
        LET stops == {k \in i..Len(text) : text[k] \notin chars}
        IN IF stops = {} THEN Len(text) + 1
           ELSE CHOOSE k \in stops : \A j \in stops : k <= j
      RECURSIVE DecimalValue(_)
      DecimalValue(digits) ==
        IF digits = <<>> THEN 0
        ELSE 10 * DecimalValue(SubSeq(digits, 1, Len(digits) - 1))
             + DigitValue(digits[Len(digits)])
      RECURSIVE PowerOfTen(_)
      PowerOfTen(n) == IF n = 0 THEN 1 ELSE 10 * PowerOfTen(n - 1)
      start == SkipChars(1, {" "})
      signed == start <= Len(text) /\ text[start] \in {"+", "-"}
      negative == signed /\ text[start] = "-"
      first == IF signed THEN start + 1 ELSE start
      point == SkipChars(first, DigitChars)
      hasPoint == point <= Len(text) /\ text[point] = "."
      last == IF hasPoint THEN SkipChars(point + 1, DigitChars) ELSE point
      whole == SubSeq(text, first, point - 1)
      fraction == IF hasPoint THEN SubSeq(text, point + 1, last - 1) ELSE <<>>
      magnitude == DecimalValue(whole) * Scale
                   + (DecimalValue(fraction) * Scale) \div PowerOfTen(Len(fraction))
  IN IF Len(whole) + Len(fraction) = 0 THEN NaN
     ELSE [nan |-> FALSE, value |-> IF negative THEN 0 - magnitude ELSE magnitude]

\* convertToMeters (lines 54-59).
convertToMeters(value, unit) ==
  IF unit = "feet" THEN Frac(value, 10000, 32808) ELSE value

\* Every shape checked as the rectangular case is.
ShapeDimensionsAsRectangular(shape) == <<"length", "width">>

\* The dimensions each case of the switch parses and checks (lines 98-161).
ShapeDimensions(shape) ==
  CASE shape = "rectangular" -> <<"length", "width">>
    [] shape = "circular" -> <<"diameter">>
    [] shape = "oval" -> <<"length", "width">>
    [] shape = "kidney" -> <<"length", "width">>

\* The second argument of calculatePoolVolume (lines 112, 125, 140, 155).
PoolArguments(c) ==
  [f \in {ShapeDimensions(c.shape)[i] : i \in DOMAIN ShapeDimensions(c.shape)}
        \cup {"shallowDepth", "deepDepth"} |->
     convertToMeters(parseFloat(c.dimensions[f]).value, c.lengthUnit)]

\* The component after construction with no initial props (lines 40-50);
\* calculatedVolume is <<>> for null.  runs counts the handleCalculate
\* calls, arguments and computed are what the last one passed to and got
\* from calculatePoolVolume.
NoCalculator ==
  [shape |-> "rectangular", unit |-> "gallons", lengthUnit |-> "meters",
   dimensions |-> [length |-> <<>>, width |-> <<>>, diameter |-> <<>>,
                   shallowDepth |-> <<>>, deepDepth |-> <<>>],
   calculatedVolume |-> <<>>, reported |-> <<>>, runs |-> 0,
   arguments |-> <<>>, computed |-> <<>>]

\* handleCalculate (lines 82-173) with `computed` standing for what the
\* imported calculatePoolVolume does when it is reached: it throws or
\* returns a volume.  Gives the component's state and the alert hook's.
handleCalculate(c, d, computed) ==
  LET called == [c EXCEPT !.runs = @ + 1, !.arguments = <<>>, !.computed = <<>>]
      reached == [called EXCEPT !.arguments = PoolArguments(c), !.computed = <<computed>>]
      required == {ShapeDimensions(c.shape)[i] : i \in DOMAIN ShapeDimensions(c.shape)}
      volume == computed.volume
  IN IF isNaN(parseFloat(c.dimensions.shallowDepth))
          \/ isNaN(parseFloat(c.dimensions.deepDepth))
       THEN [calculator |-> called, dialog |-> showAlert(d, NoOptions)]
     ELSE IF \E f \in required : isNaN(parseFloat(c.dimensions[f]))
       THEN [calculator |-> called, dialog |-> showAlert(d, NoOptions)]
     ELSE IF computed.threw
       THEN [calculator |-> reached, dialog |-> d]
     ELSE IF volume > 0
       THEN [calculator |->
               [reached EXCEPT !.calculatedVolume = <<volume>>,
                               !.reported = Append(@,
                                 [volume |-> volume, unit |-> c.unit,
                                  state |-> [shape |-> c.shape,
                                             lengthUnit |-> c.lengthUnit,
                                             dimensions |-> c.dimensions]])],
             dialog |-> d]
     ELSE [calculator |-> reached, dialog |-> d]

VARIABLES
  pc,            \* position of the detectStripType call
  image,         \* the decoded image the call works on
  loadAttempts,  \* loadImage invocations made by the call
  samples,       \* AxisSample series (line 53)
  prominence,    \* prominenceSeries (line 60)
  rawClusterSegments, \* rawClusterSegments (line 68)
  refinedClusterSegments, \* refinedClusterSegments (line 69)
  candidateSegments,  \* candidateSegments before normalisation (line 72)
  normalizedSegments, \* candidateSegments after normalisation (line 74)
  chosenPeaks,   \* chosenPeaks of buildPeakCandidate (line 490)
  ranges,        \* ranges of buildPeakCandidate (line 492)
  candidates,    \* allCandidates: <<cluster, score, peak>> (line 93)
  selected,      \* selectedCandidate (line 113)
  result,        \* the StripTypeDetection the promise settles with
  outcome,       \* "pending", "resolved" or "rejected"
  failure,       \* what was thrown inside the try block, "none" if nothing
  tracing,       \* process.env.NODE_ENV !== "production" for the running call
  console,       \* lines written to the console so far
  calls,         \* the detectStripType calls made: their image and settlement
  dialog,        \* useAlertDialog of pool-volume-calculator.tsx (resolveRef)
  windowDialog,  \* useAlertDialog keeping its handler on window
  calculator     \* PoolVolumeCalculator: its form state and what it reported

vars == <<pc, image, loadAttempts, samples, prominence, rawClusterSegments,
          refinedClusterSegments, candidateSegments, normalizedSegments,
          chosenPeaks, ranges, candidates, selected, result, outcome, failure,
          tracing, console, calls, dialog, windowDialog, calculator>>

\* The detector's own state.
detector == <<pc, image, loadAttempts, samples, prominence, rawClusterSegments,
              refinedClusterSegments, candidateSegments, normalizedSegments,
              chosenPeaks, ranges, candidates, selected, result, outcome,
              failure, tracing, console, calls>>

NoImage == [width |-> 0, height |-> 0, period |-> 1, offset |-> 0, band |-> 0,
            fg |-> <<0, 0, 0, 0>>, bg |-> <<0, 0, 0, 0>>]
NoCandidate == [source |-> "none", segments |-> <<>>, stats |-> NoStats]

\* Everything before the first call.
Blank ==
  /\ image = NoImage
  /\ loadAttempts = 0
  /\ samples = <<>>
  /\ prominence = <<>>
  /\ rawClusterSegments = <<>>
  /\ refinedClusterSegments = <<>>
  /\ candidateSegments = <<>>
  /\ normalizedSegments = <<>>
  /\ chosenPeaks = <<>>
  /\ ranges = <<>>
  /\ candidates = <<>>
  /\ selected = NoCandidate
  /\ result = Degenerate
  /\ outcome = "pending"
  /\ failure = "none"
  /\ console = 0

\* asynchronous part: await loadImage(imageUrl) (lines 46, 150-158)
Call(img) ==
  /\ pc = "idle"
  /\ pc' = "loading"
  /\ image' = img
  /\ loadAttempts' = loadAttempts + 1
  /\ UNCHANGED <<dialog, windowDialog, calculator>>
  /\ UNCHANGED <<samples, prominence, rawClusterSegments, refinedClusterSegments,
                 candidateSegments, normalizedSegments, chosenPeaks, ranges,
                 candidates, selected, result, outcome, failure, tracing,
                 calls, console>>

\* The settlement of a call whose try block threw `error`; the catch clause
\* warns on the console (line 141).
Thrown(error) ==
  /\ pc' = "done"
  /\ failure' = error
  /\ outcome' = CatchAll(error).outcome
  /\ result' = CatchAll(error).result
  /\ console' = console + 1
  /\ UNCHANGED <<dialog, windowDialog, calculator>>
  /\ UNCHANGED <<image, loadAttempts, samples, prominence, rawClusterSegments,
                 refinedClusterSegments, candidateSegments,
                 normalizedSegments, chosenPeaks, ranges, candidates,
                 selected, tracing, calls>>

\* img.onerror: the load promise rejects and the await throws.
OnError ==
  /\ pc = "loading"
  /\ Thrown("load")

\* img.onload: the await resumes with the decoded image.
OnLoad ==
  /\ pc = "loading"
  /\ pc' = "loaded"
  /\ UNCHANGED <<dialog, windowDialog, calculator>>
  /\ UNCHANGED <<image, loadAttempts, samples, prominence, rawClusterSegments,
                 refinedClusterSegments, candidateSegments,
                 normalizedSegments, chosenPeaks, ranges, candidates,
                 selected, result, outcome, failure, tracing, calls, console>>

\* prepareCanvas finds no 2D context and throws (lines 166-169).
NoContext ==
  /\ pc = "loaded"
  /\ Thrown("context")

\* drawImage or getImageData throws (lines 49-50).
PixelsUnreadable ==
  /\ pc = "loaded"
  /\ Thrown("pixels")

\* A later statement of the try block throws (lines 52-139).
StageThrows ==
  /\ pc \in {"sampled", "conditioned", "segmented"}
  /\ Thrown("stage")

\* lines 47-53: the pixels are read and sampled.
Sample ==
  /\ pc = "loaded"
  /\ samples' = sampleAlongStripAxis(image)
  /\ pc' = "sampled"
  /\ UNCHANGED <<dialog, windowDialog, calculator>>
  /\ UNCHANGED <<image, loadAttempts, prominence, rawClusterSegments,
                 refinedClusterSegments, candidateSegments,
                 normalizedSegments, chosenPeaks, ranges, candidates,
                 selected, result, outcome, failure, tracing, calls, console>>

\* lines 54-66
Condition ==
  /\ pc = "sampled"
  /\ LET smoothedSaturation == SmoothedOf(samples)
     IN prominence' = ProminenceOf(smoothedSaturation, BaselineOf(samples, smoothedSaturation))
  /\ pc' = "conditioned"
  /\ UNCHANGED <<dialog, windowDialog, calculator>>
  /\ UNCHANGED <<image, loadAttempts, samples, rawClusterSegments,
                 refinedClusterSegments, candidateSegments,
                 normalizedSegments, chosenPeaks, ranges, candidates,
                 selected, result, outcome, failure, tracing, calls, console>>

\* lines 68-93; with tracing, buildPeakCandidate writes its peak-analysis
\* line (lines 475-482).
Segment ==
  /\ pc = "conditioned"
  /\ rawClusterSegments' = clusterSamples(samples)
  /\ refinedClusterSegments' =
       refineSegmentsByProminence(rawClusterSegments', prominence, samples)
  /\ candidateSegments' = CandidateSegments(rawClusterSegments', refinedClusterSegments')
  /\ normalizedSegments' =
       normalizeSegmentCount(candidateSegments', samples, prominence, 2, 6)
  /\ chosenPeaks' = ChosenPeaks(prominence)
  /\ ranges' = PeakRanges(chosenPeaks', prominence, Len0(samples))
  /\ candidates' =
       << MakeCandidate("cluster", ClusterSegments(rawClusterSegments', normalizedSegments'),
                        prominence),
          MakeCandidate("score", filterPadSegments(buildSegmentsFromScores(samples)), prominence),
          MakeCandidate("peak", PeakSegments(samples, prominence, ranges'), prominence) >>
  /\ console' = console + (IF tracing /\ PeakAnalysisReached(prominence) THEN 1 ELSE 0)
  /\ pc' = "segmented"
  /\ UNCHANGED <<dialog, windowDialog, calculator>>
  /\ UNCHANGED <<image, loadAttempts, samples, prominence, selected, result,
                 outcome, failure, tracing, calls>>

\* lines 95-139; with tracing, one console line per candidate and one for
\* the detection.
Classify ==
  /\ pc = "segmented"
  /\ LET allCandidates == TraceCandidates(candidates, tracing)
         eligible == SelectSeq(allCandidates, LAMBDA c : Len(c.segments) > 0)
         selectedCandidate == selectBestCandidate(eligible, candidates[1])
         padCount == Len(selectedCandidate.segments)
         inferredType == inferStripType(padCount)
     IN /\ candidates' = allCandidates
        /\ selected' = selectedCandidate
        /\ result' =
             [padCount |-> padCount,
              inferredType |-> inferredType,
              confidence |->
                calculateConfidence(selectedCandidate.segments, padCount, inferredType,
                  [fallbackUsed |-> selectedCandidate.source # "cluster",
                   stats |-> selectedCandidate.stats,
                   source |-> selectedCandidate.source])]
  /\ console' = console + (IF tracing THEN Len(candidates) + 1 ELSE 0)
  /\ outcome' = "resolved"
  /\ pc' = "done"
  /\ UNCHANGED <<dialog, windowDialog, calculator>>
  /\ UNCHANGED <<image, loadAttempts, samples, prominence, rawClusterSegments,
                 refinedClusterSegments, candidateSegments,
                 normalizedSegments, chosenPeaks, ranges, failure, tracing,
                 calls>>

\* ------------------------------------------------------------------------
\* Inputs and specification
\* ------------------------------------------------------------------------

White == <<255, 255, 255, 255>>
Gray == <<234, 234, 234, 255>>
Red == <<200, 40, 40, 255>>
Teal == <<40, 160, 150, 255>>
Clear == <<0, 0, 0, 0>>

\* Bands are 1..MaxBand pixels long.
MaxBand == 3

\* <<width, height>> of the decoded images: upright and lying strips.
Sizes == {<<1, 40>>, <<1, 96>>, <<96, 2>>}
Periods == {1, 3, 16, 32}

Images ==
  { [width |-> d[1], height |-> d[2], period |-> p, offset |-> 0, band |-> b,
     fg |-> f, bg |-> g] :
      d \in Sizes, p \in Periods, b \in 1..MaxBand, f \in {Gray, Red, Teal, White},
      g \in {White, Clear} }

Init ==
  /\ pc = "idle"
  /\ Blank
  /\ dialog = NoDialog
  /\ windowDialog = NoWindowDialog
  /\ calculator = NoCalculator
  /\ tracing \in BOOLEAN
  /\ calls = <<>>

Next ==
  \/ \E img \in Images : Call(img)
  \/ OnError
  \/ OnLoad
  \/ NoContext
  \/ PixelsUnreadable
  \/ StageThrows
  \/ Sample
  \/ Condition
  \/ Segment
  \/ Classify

Spec == Init /\ [][Next]_vars

\* ------------------------------------------------------------------------
\* Detection from a given sample series (SpecSeries)
\* ------------------------------------------------------------------------

\* The colour of an opaque pixel.
Rgb(pixel) == <<pixel[1], pixel[2], pixel[3]>>

\* Pad series have 1..MaxPads pads of 3, 6 or MaxWidth samples.
MaxPads == 6
MaxWidth == 9
PadWidths == {3, 6, MaxWidth}
PadGaps == {5, 6}
PadColors == {Rgb(Red), Rgb(Teal)}
SeriesStart == 2

\* `pads` runs of `width` samples of one colour, `gap` white samples apart,
\* the first run at SeriesStart; white elsewhere.
PadSeries(pads, width, gap, color) ==
  [i \in 0..(sampleCount - 1) |->
     MakeSample(IF /\ i >= SeriesStart
                   /\ (i - SeriesStart) % (width + gap) < width
                   /\ (i - SeriesStart) \div (width + gap) < pads
                THEN color ELSE Rgb(White))]

\* Two colours taking turns every `run` samples.
MaxRun == 3
ColorPairs ==
  { << <<0, 0, 0>>, <<7, 7, 7>> >>,
    << <<100, 100, 100>>, <<113, 100, 100>> >>,
    << <<100, 100, 100>>, <<112, 100, 100>> >>,
    << Rgb(Red), Rgb(Teal) >>,
    << Rgb(White), Rgb(Red) >> }

TwoColorSeries(a, b, run) ==
  [i \in 0..(sampleCount - 1) |-> MakeSample(IF (i \div run) % 2 = 0 THEN a ELSE b)]

\* Pads of 6 or MaxWidth samples with pads of 1..MaxNarrow samples between
\* them: <<start, width>> of each pad.
MaxNarrow == 3
WideWidths == {6, MaxWidth}
Layouts(w, n) ==
  { << <<3, w>>, <<35, n>>, <<60, n>>, <<84, w>> >>,
    << <<3, w>>, <<30, n>>, <<48, w>>, <<70, n>> >>,
    << <<2, w>>, <<20, n>>, <<34, w>>, <<52, n>>, <<66, w>>, <<84, n>> >>,
    << <<2, w>>, <<22, n>>, <<40, n>>, <<58, n>>, <<76, w>> >>,
    << <<2, w>>, <<16, n>>, <<32, n>>, <<48, n>>, <<64, w>>, <<82, w>> >> }

MixedSeries(layout, color) ==
  [i \in 0..(sampleCount - 1) |->
     MakeSample(IF \E k \in DOMAIN layout :
                     i \in layout[k][1]..(layout[k][1] + layout[k][2] - 1)
                THEN color ELSE Rgb(White))]

\* Red fading to white, or white deepening to red, by `step` per sample.
RampSteps == {1, 2}
RampSeries(step, rising) ==
  [i \in 0..(sampleCount - 1) |->
     LET k == IF rising THEN sampleCount - 1 - i ELSE i
         v == Max(0, 200 - step * k)
     IN MakeSample(<<200, v, v>>)]

\* Pads that touch the ends of the series.
EdgeLayouts ==
  { << <<0, 2>>, <<95, 1>> >>, << <<0, 1>>, <<93, 3>> >>, << <<95, 1>> >>, << <<0, 3>> >> }

\* More than six pads of differing widths.
CrowdedLayouts ==
  { << <<1, 3>>, <<8, 5>>, <<17, 4>>, <<25, 3>>, <<32, 6>>, <<42, 3>>, <<49, 4>>, <<57, 5>> >>,
    << <<1, 6>>, <<10, 3>>, <<16, 3>>, <<22, 8>>, <<33, 3>>, <<39, 4>>, <<46, 3>>,
       <<52, 3>>, <<58, 5>> >>,
    << <<1, 4>>, <<11, 3>>, <<20, 9>>, <<35, 3>>, <<44, 3>>, <<53, 5>>, <<64, 3>> >>,
    << <<1, 3>>, <<8, 3>>, <<15, 3>>, <<22, 3>>, <<29, 3>>, <<36, 3>>, <<43, 3>>,
       <<50, 3>>, <<57, 3>>, <<64, 3>> >> }

\* `lead` white samples, then two close dark shades taking turns every
\* `run` samples: one cluster with valleys of saturation.
ShadePairs ==
  { << <<30, 20, 20>>, <<22, 20, 20>> >>, << <<30, 20, 20>>, <<28, 20, 20>> >> }
Leads == {0, 30}
ShadeRuns == {8, 12}
ValleySeries(a, b, lead, run) ==
  [i \in 0..(sampleCount - 1) |->
     MakeSample(IF i < lead THEN Rgb(White)
                ELSE IF ((i - lead) \div run) % 2 = 0 THEN a ELSE b)]

SeriesInputs ==
  { PadSeries(k, w, g, c) : k \in 1..MaxPads, w \in PadWidths, g \in PadGaps, c \in PadColors }
  \cup { TwoColorSeries(p[1], p[2], run) : p \in ColorPairs, run \in 1..MaxRun }
  \cup UNION { { MixedSeries(l, c) : l \in Layouts(w, n) } :
                 w \in WideWidths, n \in 1..MaxNarrow, c \in PadColors }
  \cup { RampSeries(step, rising) : step \in RampSteps, rising \in BOOLEAN }
  \cup { MixedSeries(l, Rgb(Red)) : l \in EdgeLayouts }
  \cup { MixedSeries(l, c) : l \in CrowdedLayouts, c \in PadColors }
  \cup { ValleySeries(p[1], p[2], lead, run) :
           p \in ShadePairs, lead \in Leads, run \in ShadeRuns }

\* The call has loaded its image and sampled it.
InitSeries ==
  /\ dialog = NoDialog
  /\ windowDialog = NoWindowDialog
  /\ calculator = NoCalculator
  /\ pc = "sampled"
  /\ samples \in SeriesInputs
  /\ image = NoImage
  /\ loadAttempts = 1
  /\ prominence = <<>>
  /\ rawClusterSegments = <<>>
  /\ refinedClusterSegments = <<>>
  /\ candidateSegments = <<>>
  /\ normalizedSegments = <<>>
  /\ chosenPeaks = <<>>
  /\ ranges = <<>>
  /\ candidates = <<>>
  /\ selected = NoCandidate
  /\ result = Degenerate
  /\ outcome = "pending"
  /\ failure = "none"
  /\ console = 0
  /\ tracing = FALSE
  /\ calls = <<>>

NextSeries ==
  \/ Condition
  \/ Segment
  \/ Classify

SpecSeries == InitSeries /\ [][NextSeries]_vars

\* ------------------------------------------------------------------------
\* buildRangesFromPeaks on given peaks (SpecRanges)
\* ------------------------------------------------------------------------

\* Up to MaxPeaks peaks, at the ends and in the middle of the series.
MaxPeaks == 6
PeakPositions == {0, 1, 2, 3, 4, 46, 47, 48, 92, 93, 94, 95}

PeakLists ==
  { SortedSeq(S) : S \in { T \in SUBSET PeakPositions : Cardinality(T) \in 1..MaxPeaks } }

ProminenceShapes ==
  { [i \in 0..(sampleCount - 1) |-> 0],
    [i \in 0..(sampleCount - 1) |-> 9 * Scale],
    [i \in 0..(sampleCount - 1) |-> i * (Scale \div 8)],
    [i \in 0..(sampleCount - 1) |-> (sampleCount - i) * (Scale \div 8)],
    [i \in 0..(sampleCount - 1) |-> IF i % 2 = 0 THEN 9 * Scale ELSE 0] }

InitRanges ==
  /\ dialog = NoDialog
  /\ windowDialog = NoWindowDialog
  /\ calculator = NoCalculator
  /\ pc = "peaks"
  /\ prominence \in ProminenceShapes
  /\ chosenPeaks \in PeakLists
  /\ image = NoImage
  /\ loadAttempts = 1
  /\ samples = <<>>
  /\ rawClusterSegments = <<>>
  /\ refinedClusterSegments = <<>>
  /\ candidateSegments = <<>>
  /\ normalizedSegments = <<>>
  /\ ranges = <<>>
  /\ candidates = <<>>
  /\ selected = NoCandidate
  /\ result = Degenerate
  /\ outcome = "pending"
  /\ failure = "none"
  /\ console = 0
  /\ tracing = FALSE
  /\ calls = <<>>

\* line 492
BuildRanges ==
  /\ pc = "peaks"
  /\ ranges' = PeakRanges(chosenPeaks, prominence, Len0(prominence))
  /\ pc' = "ranged"
  /\ UNCHANGED <<dialog, windowDialog, calculator>>
  /\ UNCHANGED <<image, loadAttempts, samples, prominence, rawClusterSegments,
                 refinedClusterSegments, candidateSegments,
                 normalizedSegments, chosenPeaks, candidates, selected,
                 result, outcome, failure, tracing, calls, console>>

NextRanges == BuildRanges

SpecRanges == InitRanges /\ [][NextRanges]_vars

\* ------------------------------------------------------------------------
\* Several calls on one JavaScript thread (SpecRuns, SpecOverlap)
\* ------------------------------------------------------------------------

\* At most MaxCalls calls are made.
MaxCalls == 3

\* A uniform red strip and a teal-banded one.
RunImages ==
  { [width |-> 1, height |-> 40, period |-> 1, offset |-> 0, band |-> 1,
     fg |-> Red, bg |-> White],
    [width |-> 1, height |-> 96, period |-> 16, offset |-> 0, band |-> 3,
     fg |-> Teal, bg |-> White] }

\* An Image element shared by all calls: the last src assigned wins.
ResolvedWithLatest(all, c) == all[Len(all)].image

\* What call c's await yields: the img of the closure its own loadImage
\* created (lines 151-157).
ResolvedWith(all, c) == all[c].image

InFlight(c) == calls[c].status = "loading"

\* The calls settled so far.
Settled == {c \in DOMAIN calls : calls[c].status = "settled"}

\* A new call runs up to its await (lines 44-46, 151-157); it overlaps every
\* call still waiting for another image.
Invoke(img, trace) ==
  /\ pc = "idle"
  /\ Len(calls) < MaxCalls
  /\ LET others == {c \in DOMAIN calls : InFlight(c) /\ calls[c].image # img}
     IN calls' = Append([c \in DOMAIN calls |->
                           IF c \in others THEN [calls[c] EXCEPT !.overlapped = TRUE]
                           ELSE calls[c]],
                        [image |-> img, tracing |-> trace, status |-> "loading",
                         overlapped |-> others # {},
                         finished |-> 0, result |-> Degenerate, outcome |-> "pending"])
  /\ loadAttempts' = loadAttempts + 1
  /\ UNCHANGED <<dialog, windowDialog, calculator>>
  /\ UNCHANGED <<pc, image, samples, prominence, rawClusterSegments,
                 refinedClusterSegments, candidateSegments, normalizedSegments,
                 chosenPeaks, ranges, candidates, selected, result, outcome,
                 failure, tracing, console>>

\* The load event of call c: its continuation takes the thread with fresh
\* locals (line 46 onwards).
Resume(c) ==
  /\ pc = "idle"
  /\ InFlight(c)
  /\ pc' = "loaded"
  /\ image' = ResolvedWith(calls, c)
  /\ tracing' = calls[c].tracing
  /\ calls' = [calls EXCEPT ![c].status = "running"]
  /\ samples' = <<>>
  /\ prominence' = <<>>
  /\ rawClusterSegments' = <<>>
  /\ refinedClusterSegments' = <<>>
  /\ candidateSegments' = <<>>
  /\ normalizedSegments' = <<>>
  /\ chosenPeaks' = <<>>
  /\ ranges' = <<>>
  /\ candidates' = <<>>
  /\ selected' = NoCandidate
  /\ result' = Degenerate
  /\ outcome' = "pending"
  /\ failure' = "none"
  /\ UNCHANGED <<dialog, windowDialog, calculator>>
  /\ UNCHANGED <<loadAttempts, console>>

\* The running call returns (lines 135-139) and frees the thread.
Return ==
  /\ pc = "done"
  /\ \E c \in DOMAIN calls :
       /\ calls[c].status = "running"
       /\ calls' = [calls EXCEPT ![c].status = "settled",
                                 ![c].finished = Cardinality(Settled) + 1,
                                 ![c].outcome = outcome,
                                 ![c].result = result]
  /\ pc' = "idle"
  /\ UNCHANGED <<dialog, windowDialog, calculator>>
  /\ UNCHANGED <<image, loadAttempts, samples, prominence, rawClusterSegments,
                 refinedClusterSegments, candidateSegments, normalizedSegments,
                 chosenPeaks, ranges, candidates, selected, result, outcome,
                 failure, tracing, console>>

\* A call made while no other call is waiting for its image.
InvokeAlone(img, trace) ==
  /\ \A c \in DOMAIN calls : ~InFlight(c)
  /\ Invoke(img, trace)

\* Calls made one after the other, each with tracing on or off.
InitRuns ==
  /\ pc = "idle"
  /\ Blank
  /\ dialog = NoDialog
  /\ windowDialog = NoWindowDialog
  /\ calculator = NoCalculator
  /\ tracing = FALSE
  /\ calls = <<>>

NextRuns ==
  \/ \E img \in RunImages, trace \in BOOLEAN : InvokeAlone(img, trace)
  \/ \E c \in DOMAIN calls : Resume(c)
  \/ Sample
  \/ Condition
  \/ Segment
  \/ Classify
  \/ Return

SpecRuns == InitRuns /\ [][NextRuns]_vars

\* Calls made while earlier ones still wait for their image; NODE_ENV is
\* the same for the whole process.
InitOverlap ==
  /\ pc = "idle"
  /\ Blank
  /\ dialog = NoDialog
  /\ windowDialog = NoWindowDialog
  /\ calculator = NoCalculator
  /\ tracing \in BOOLEAN
  /\ calls = <<>>

NextOverlap ==
  \/ \E img \in RunImages : Invoke(img, tracing)
  \/ \E c \in DOMAIN calls : Resume(c)
  \/ Sample
  \/ Condition
  \/ Segment
  \/ Classify
  \/ Return

SpecOverlap == InitOverlap /\ [][NextOverlap]_vars

\* ------------------------------------------------------------------------
\* The alert dialogs in use
\* ------------------------------------------------------------------------
\* showAlert calls made on one hook, and button handlers waiting for their
\* callback at once.
MaxAlerts == 3
MaxHandlers == 2

\* The options the callers pass: a plain notice, and confirmations whose
\* callbacks throw, fulfil or reject.
AlertOptions ==
  {NoOptions,
   [cancelLabel |-> FALSE, onConfirm |-> "throws", onCancel |-> "absent"],
   [cancelLabel |-> TRUE, onConfirm |-> "resolves", onCancel |-> "throws"],
   [cancelLabel |-> TRUE, onConfirm |-> "rejects", onCancel |-> "resolves"]}

\* A caller invokes showAlert, whether or not an alert is showing.
ShowAlert(opts) ==
  /\ Len(dialog.promises) < MaxAlerts
  /\ dialog' = showAlert(dialog, opts)
  /\ UNCHANGED <<windowDialog, calculator>>
  /\ UNCHANGED detector

\* The user presses the action button, or the cancel button when the
\* options have a cancelLabel (lines 392-401).
Press(button) ==
  /\ dialog.isOpen
  /\ button = "cancel" => dialog.options.cancelLabel
  /\ Len(dialog.handlers) < MaxHandlers
  /\ dialog' = handleButton(dialog, button)
  /\ UNCHANGED <<windowDialog, calculator>>
  /\ UNCHANGED detector

\* The promise a waiting handler awaits settles.
Settle(h) ==
  /\ dialog' = settleHandler(dialog, h)
  /\ UNCHANGED <<windowDialog, calculator>>
  /\ UNCHANGED detector

\* The dialog asks to be closed (Escape, or the button's own close request):
\* onOpenChange(false) (line 385).
Dismiss ==
  /\ dialog.isOpen
  /\ dialog' = handleOpenChange(dialog, FALSE)
  /\ UNCHANGED <<windowDialog, calculator>>
  /\ UNCHANGED detector

InitDialog ==
  /\ pc = "idle"
  /\ Blank
  /\ dialog = NoDialog
  /\ windowDialog = NoWindowDialog
  /\ calculator = NoCalculator
  /\ tracing = FALSE
  /\ calls = <<>>

NextDialog ==
  \/ \E opts \in AlertOptions : ShowAlert(opts)
  \/ \E button \in {"confirm", "cancel"} : Press(button)
  \/ \E h \in DOMAIN dialog.handlers : Settle(h)
  \/ Dismiss

SpecDialog == InitDialog /\ [][NextDialog]_vars

\* The hook of part_000.
ShowWindowAlert(opts) ==
  /\ Len(windowDialog.promises) < MaxAlerts
  /\ windowDialog' = showWindowAlert(windowDialog, opts)
  /\ UNCHANGED <<dialog, calculator>>
  /\ UNCHANGED detector

\* The user presses the action button (line 63).
PressAction ==
  /\ windowDialog.isOpen
  /\ windowDialog' = handleAction(windowDialog)
  /\ UNCHANGED <<dialog, calculator>>
  /\ UNCHANGED detector

\* The dialog asks to be closed: onOpenChange(false) (line 55).
DismissWindow ==
  /\ windowDialog.isOpen
  /\ windowDialog' = setIsOpen(windowDialog, FALSE)
  /\ UNCHANGED <<dialog, calculator>>
  /\ UNCHANGED detector

NextWindowDialog ==
  \/ \E opts \in [titled : BOOLEAN, variant : {"default", "destructive"}] :
        ShowWindowAlert(opts)
  \/ PressAction
  \/ DismissWindow

SpecWindowDialog == InitDialog /\ [][NextWindowDialog]_vars

\* ------------------------------------------------------------------------
\* The calculator in use
\* ------------------------------------------------------------------------
\* Presses of the Calculate button.
MaxCalculations == 2

\* What a field may hold, typed in or taken from initialState: nothing, a
\* sign alone, "1.5" and " 3m".
Texts == {<<>>, <<"-">>, <<"1", ".", "5">>, <<" ", "3", "m">>}

\* What calculatePoolVolume may do.
Computations ==
  {[threw |-> TRUE, volume |-> 0]}
    \cup {[threw |-> FALSE, volume |-> v] : v \in {-1, 0, 2}}

\* The user presses Calculate (line 298).
HandleCalculate(computed) ==
  /\ calculator.runs < MaxCalculations
  /\ LET after == handleCalculate(calculator, dialog, computed)
     IN /\ calculator' = after.calculator
        /\ dialog' = after.dialog
  /\ UNCHANGED windowDialog
  /\ UNCHANGED detector

\* The form as the user left it (setters of lines 62-80 and the initial
\* props of lines 40-50), with no volume calculated yet or one of 5.
InitCalculator ==
  /\ pc = "idle"
  /\ Blank
  /\ dialog = NoDialog
  /\ windowDialog = NoWindowDialog
  /\ calculator \in
       {[NoCalculator EXCEPT !.shape = shape, !.unit = unit,
                             !.lengthUnit = lengthUnit,
                             !.dimensions = dimensions,
                             !.calculatedVolume = volume] :
          shape \in {"rectangular", "circular", "oval", "kidney"},
          unit \in {"gallons", "litres", "cubic-meters"},
          lengthUnit \in {"feet", "meters"},
          dimensions \in [{"length", "width", "diameter", "shallowDepth",
                           "deepDepth"} -> Texts],
          volume \in {<<>>, <<5>>}}
  /\ tracing = FALSE
  /\ calls = <<>>

NextCalculator ==
  \/ \E computed \in Computations : HandleCalculate(computed)
  \/ Press("confirm")
  \/ Dismiss

SpecCalculator == InitCalculator /\ [][NextCalculator]_vars

\* ------------------------------------------------------------------------
\* Properties of a detection run on an image (Spec)
\* ------------------------------------------------------------------------

\* The call returned from line 135, not from the catch clause.
Completed == pc = "done" /\ failure = "none"

\* Every pixel of the image has the same colour.
Uniform(img) == img.band >= img.period \/ img.fg = img.bg

\* C1: for every decoded pixel buffer the returned padCount is the number
\* of segments of the selected candidate and lies in 0..6.
PadCountWithinSix ==
  Completed => /\ result.padCount = Len(selected.segments)
               /\ result.padCount \in 0..6

\* C2: an image whose pixels all have one colour yields padCount 0,
\* inferredType null and confidence 0.
UniformImageDegenerate ==
  (Completed /\ Uniform(image)) => result = Degenerate

\* C3: the call never rejects; when the load fails, no 2D context exists or
\* a stage throws, it resolves to the degenerate result; the image load is
\* attempted exactly once per call.
NeverRejects ==
  /\ outcome # "rejected"
  /\ pc = "done" => outcome = "resolved"
  /\ (pc = "done" /\ failure # "none") => result = Degenerate
  /\ pc # "idle" => loadAttempts = 1

\* A call whose try block threw has settled.
FailureSettled == pc = "done" /\ failure \in {"load", "context", "pixels", "stage"}

\* C4: in every returned result, padCount 0 comes with confidence 0 and
\* inferredType null.
ZeroPadsZeroConfidence ==
  (pc = "done" /\ result.padCount = 0) =>
    (result.confidence = 0 /\ result.inferredType = "null")

\* The pipeline ran to the end and selected a candidate without segments.
ZeroPadsDetected ==
  Completed /\ Len(candidates) = 3 /\ Len(selected.segments) = 0 /\ result.padCount = 0

\* ------------------------------------------------------------------------
\* Properties of the candidates and the classification
\* ------------------------------------------------------------------------

\* Sorted by start index, each segment ending before the next starts.
SortedDisjoint(segments) ==
  \A i \in 1..(Len(segments) - 1) :
    /\ segments[i].start <= segments[i + 1].start
    /\ segments[i].end < segments[i + 1].start

\* C5: the segments of each of the cluster, score and peak candidates are
\* sorted by start index and pairwise disjoint.
CandidatesSortedDisjoint ==
  \A k \in 1..Len(candidates) : SortedDisjoint(candidates[k].segments)

\* The three candidates are built, the cluster candidate after merging
\* segments down to six, the peak candidate from several peaks.
CandidatesBuilt ==
  /\ Len(candidates) = 3
  /\ Len(rawClusterSegments) > 6
  /\ Len(candidates[1].segments) = 6
  /\ Len(candidates[2].segments) > 1
  /\ Len(candidates[3].segments) > 1

\* C6: adjacent ranges returned by buildRangesFromPeaks never overlap,
\* whatever the ascending peak list and the prominence series.
RangesNeverOverlap ==
  \A i \in 1..(Len(ranges) - 1) : ranges[i].end < ranges[i + 1].start

\* Ranges were built from neighbouring peaks, whose grown ranges collide.
NeighbouringPeaksRanged ==
  /\ pc = "ranged"
  /\ Len(ranges) >= 2
  /\ \E i \in 1..(Len(chosenPeaks) - 1) : chosenPeaks[i + 1] = chosenPeaks[i] + 1

\* The colours occurring in a sample series.
ColorsOf(series) == {series[i].color : i \in DOMAIN series}

\* The squared Euclidean RGB distance of two colours.
SquaredDistance(a, b) ==
  (a[1] - b[1]) * (a[1] - b[1]) + (a[2] - b[2]) * (a[2] - b[2])
  + (a[3] - b[3]) * (a[3] - b[3])

\* The Euclidean RGB distance of the two colours exceeds 12.
FarApart(a, b) == SquaredDistance(a, b) > 12 * 12

\* The series is built from two colours more than colorThreshold apart.
TwoFarColors(series) ==
  /\ Cardinality(ColorsOf(series)) = 2
  /\ \A a, b \in ColorsOf(series) : a # b => FarApart(a, b)

\* C7: clusterSamples on a series of two colours whose distance exceeds 12
\* starts a new segment at every change of colour, so that no segment holds
\* samples of both colours.
SplitsAtEveryChange ==
  (Len(rawClusterSegments) > 0 /\ TwoFarColors(samples)) =>
    /\ \A i \in 1..(Len0(samples) - 1) :
         samples[i].color # samples[i - 1].color =>
           \E k \in 1..Len(rawClusterSegments) : rawClusterSegments[k].start = i
    /\ \A k \in 1..Len(rawClusterSegments) :
         \A i \in rawClusterSegments[k].start..rawClusterSegments[k].end :
           samples[i].color = samples[rawClusterSegments[k].start].color

\* A series alternating between two colours barely more than 12 apart has
\* been clustered.
NearThresholdClustered ==
  /\ Len(rawClusterSegments) > 6
  /\ TwoFarColors(samples)
  /\ \E a, b \in ColorsOf(samples) :
       a # b /\ SquaredDistance(a, b) < 13 * 13

\* The series has exactly `pads` equal pads, at least 5 samples apart.
EqualPads(series, pads) ==
  \E w \in PadWidths, g \in PadGaps, c \in PadColors : series = PadSeries(pads, w, g, c)

\* C8: a series with exactly 6 well-separated equal peaks is classified
\* 6-in-1 with confidence > 0.7, and one with exactly 3 is classified
\* 3-in-1 with confidence > 0.7.
EqualPeaksClassified ==
  Completed =>
    /\ EqualPads(samples, 6) =>
         (result.inferredType = "6-in-1" /\ result.confidence * 10 > 7 * Scale)
    /\ EqualPads(samples, 3) =>
         (result.inferredType = "3-in-1" /\ result.confidence * 10 > 7 * Scale)

\* C9: 0 pads give null, 6 or more 6-in-1, 1 or 2 give 3-in-1, and 3, 4, 5
\* give the family whose expected count is closer, a tie going to 6-in-1
\* from 4 pads on.
TypeFollowsPadCount ==
  Completed =>
    LET p == result.padCount
    IN result.inferredType =
         IF p = 0 THEN "null"
         ELSE IF p >= 6 THEN "6-in-1"
         ELSE IF p \in {1, 2} THEN "3-in-1"
         ELSE IF 6 - p < p - 3 THEN "6-in-1"
         ELSE IF p - 3 < 6 - p THEN "3-in-1"
         ELSE IF p >= 4 THEN "6-in-1" ELSE "3-in-1"

\* A run returned four pads, between the two expected counts.
FourPadsReturned == Completed /\ result.padCount = 4 /\ Len(selected.segments) = 4

\* C10: the returned confidence lies within [0, 1].
ConfidenceInUnitInterval ==
  result.confidence >= 0 /\ result.confidence <= Scale

\* A run whose weighted sum exceeded 1 returned.
SumAboveOneReturned ==
  /\ Completed
  /\ result.padCount > 0
  /\ ConfidenceSum(selected.segments, result.padCount, result.inferredType,
                   [fallbackUsed |-> selected.source # "cluster",
                    stats |-> selected.stats,
                    source |-> selected.source]) > Scale

\* A call that got its pixels, ran the detection and returned.
Decoded(c) == calls[c].status = "settled" /\ calls[c].outcome = "resolved"

OverlappedAsAlone ==
  /\ \A c \in DOMAIN calls : calls[c].status = "running" => image = calls[c].image
  /\ \A c, d \in DOMAIN calls :
       (/\ Decoded(c) /\ Decoded(d)
        /\ calls[c].overlapped /\ ~calls[d].overlapped
        /\ calls[c].image = calls[d].image)
         => calls[c].result = calls[d].result

\* C12 witness: two overlapping calls on different images have returned, the
\* one started first finishing last, and a third call ran one of the images
\* alone.
OverlappedReturned ==
  \E c, d, e \in DOMAIN calls :
    /\ d < e /\ calls[e].finished < calls[d].finished
    /\ Decoded(c) /\ Decoded(d) /\ Decoded(e)
    /\ ~calls[c].overlapped /\ calls[d].overlapped /\ calls[e].overlapped
    /\ calls[c].image = calls[d].image
    /\ calls[e].image # calls[d].image
    /\ calls[d].result.padCount > 0

\* The series is built from two colours at least colorThreshold apart.
TwoColorsTwelveApart(series) ==
  /\ Cardinality(ColorsOf(series)) = 2
  /\ \A a, b \in ColorsOf(series) : a # b => SquaredDistance(a, b) >= 12 * 12

\* C13: a cluster segment grows only while the next sample is strictly less
\* than 12 from the segment mean; a sample at distance 12 or more, exactly
\* 12 included, starts a new segment. On a series of two colours 12 or more
\* apart every change of colour then starts a segment.
NewSegmentFromTwelve ==
  (Len(rawClusterSegments) > 0 /\ TwoColorsTwelveApart(samples)) =>
    \A i \in 1..(Len0(samples) - 1) :
      samples[i].color # samples[i - 1].color =>
        \E k \in 1..Len(rawClusterSegments) : rawClusterSegments[k].start = i

\* The peak strategy has built its segments.
PeakSegmentsBuilt == pc \in {"segmented", "done"} /\ Len(ranges) > 0

\* C14: the peak candidate has the unfiltered peak segments whenever fewer
\* than 60% of them pass filterPadSegments, and the filtered ones otherwise.
UnfilteredBelowSixtyPercent ==
  PeakSegmentsBuilt =>
    LET segments == RangeSegments(samples, prominence, ranges)
        filteredSegments == filterPadSegments(segments)
        peak == SelectSeq(candidates, LAMBDA c : c.source = "peak")[1]
    IN peak.segments = IF Len(filteredSegments) * 100 < 60 * Len(segments)
                       THEN segments ELSE filteredSegments

\* The sample positions that no segment of the list covers.
Uncovered(segments) ==
  {i \in 0..(sampleCount - 1) :
     \A k \in 1..Len(segments) : i < segments[k].start \/ i > segments[k].end}

\* C15: the gapRatio of a non-empty segment list is the fraction of the
\* whole sampled axis, all sample positions, that no segment covers.
GapRatioOfWholeAxis ==
  \A k \in 1..Len(candidates) :
    Len(candidates[k].segments) > 0 =>
      candidates[k].stats.gapRatio =
        (Cardinality(Uncovered(candidates[k].segments)) * Scale) \div sampleCount

\* C16: every range buildRangesFromPeaks returns for the peaks the peak
\* strategy passes in spans at least 3 samples, also when the top-K fallback
\* chose index 0 or the last index.
RangesSpanThree ==
  \A k \in 1..Len(ranges) : ranges[k].end - ranges[k].start + 1 >= 3

\* C16 witness: ranges were built around several fallback peaks, one of them
\* at the last index while index 0 was chosen too or the next peak is only
\* minDistance away.
EdgePeaksRanged ==
  /\ pc = "segmented"
  /\ Len(chosenPeaks) >= 2
  /\ Len(ranges) = Len(chosenPeaks)
  /\ chosenPeaks[Len(chosenPeaks)] = sampleCount - 1
  /\ \/ chosenPeaks[1] = 0
     \/ chosenPeaks[Len(chosenPeaks) - 1] = sampleCount - 1 - 5

\* The segment spans 3 samples or more and is not both lighter than 92 and
\* less saturated than 6.
PassesPadFilter(segment) ==
  /\ segment.end - segment.start >= 2
  /\ segment.lightness <= 92 * Scale \/ segment.saturation >= 6 * Scale

AllPass(segments) == \A i \in 1..Len(segments) : PassesPadFilter(segments[i])

\* The candidate of the given strategy.
CandidateOf(source) == SelectSeq(candidates, LAMBDA c : c.source = source)[1]

\* C17 as stated: every segment of the cluster, score and peak candidates
\* handed to the evaluator has passed the pad filter.
AllCandidateSegmentsFiltered ==
  Len(candidates) > 0 =>
    \A k \in 1..Len(candidates) : AllPass(candidates[k].segments)

\* C17 amended: every segment of the cluster and score candidates has passed
\* the pad filter; the peak candidate holds either only segments that passed
\* it or all the unfiltered peak segments, each spanning 3 samples or more.
CandidateSegmentsFilteredOrRaw ==
  Len(candidates) > 0 =>
    /\ AllPass(CandidateOf("cluster").segments)
    /\ AllPass(CandidateOf("score").segments)
    /\ \/ AllPass(CandidateOf("peak").segments)
       \/ CandidateOf("peak").segments = RangeSegments(samples, prominence, ranges)
    /\ \A i \in 1..Len(CandidateOf("peak").segments) :
         CandidateOf("peak").segments[i].end - CandidateOf("peak").segments[i].start >= 2

\* C17 witness: the evaluator is handed a peak candidate with a bright,
\* unsaturated segment next to non-empty cluster and score candidates.
UnfilteredPeakSegmentKept ==
  /\ pc = "segmented"
  /\ ~AllPass(CandidateOf("peak").segments)
  /\ Len(CandidateOf("cluster").segments) > 0
  /\ Len(CandidateOf("score").segments) > 0

\* <<start, end>> of each segment.
RangesOf(segments) == [k \in 1..Len(segments) |-> <<segments[k].start, segments[k].end>>]

\* The sum of the spans of the pair at i and i + 1.
CombinedSpan(list, i) ==
  (list[i][2] - list[i][1] + 1) + (list[i + 1][2] - list[i + 1][1] + 1)

\* The list of ranges after joining, while it has more than 6 members, the
\* first adjacent pair among those with the smallest combined span.
RECURSIVE MergedBySmallestPair(_)
MergedBySmallestPair(list) ==
  IF Len(list) <= 6 THEN list
  ELSE LET i == CHOOSE a \in 1..(Len(list) - 1) :
                  \A b \in 1..(Len(list) - 1) :
                    \/ CombinedSpan(list, a) < CombinedSpan(list, b)
                    \/ CombinedSpan(list, a) = CombinedSpan(list, b) /\ a <= b
       IN MergedBySmallestPair(SubSeq(list, 1, i - 1)
                               \o << <<list[i][1], list[i + 1][2]>> >>
                               \o SubSeq(list, i + 2, Len(list)))

\* C18: normalizeSegmentCount on a non-empty list of disjoint segments
\* returns at most 6 segments when given 2 or more, only merges (every
\* given segment lies inside exactly one returned segment), joins each time
\* two adjacent segments with the smallest combined span, and returns a
\* list of fewer than 2 segments unchanged.
OnlyMergesSmallestPairs ==
  Len(candidateSegments) > 0 =>
    LET given == RangesOf(candidateSegments)
        returned == RangesOf(normalizedSegments)
    IN /\ Len(given) >= 2 => Len(returned) <= 6
       /\ Len(given) < 2 => normalizedSegments = candidateSegments
       /\ \A i \in 1..Len(given) :
            Cardinality({k \in 1..Len(returned) :
                           returned[k][1] <= given[i][1] /\ given[i][2] <= returned[k][2]}) = 1
       /\ returned = MergedBySmallestPair(given)

\* C18 witness: more than 6 segments of differing spans were normalised to
\* 6, one of them left as it was.
UnequalSegmentsMerged ==
  /\ Len(candidateSegments) > 6
  /\ Len(normalizedSegments) = 6
  /\ \E i, j \in 1..Len(candidateSegments) :
       Span(candidateSegments[i]) # Span(candidateSegments[j])
  /\ \E i \in 1..Len(candidateSegments), k \in 1..6 :
       RangesOf(candidateSegments)[i] = RangesOf(normalizedSegments)[k]

\* The largest prominence in lo..hi, 0 if none is larger.
LargestIn(lo, hi) ==
  LET values == {prominence[i] : i \in lo..hi} \cup {0}
  IN CHOOSE m \in values : \A v \in values : v <= m

\* The refined pieces lo..hi, which tile the range from the start of the
\* first to the end of the last, come from splits each made at the end e of
\* a piece, where e is 3 or more from both ends of the range split, no
\* prominence that far from the ends is lower, and the prominence at e is at
\* most 55% of the smaller of the largest values on its two sides.
RECURSIVE SplitsJustified(_, _)
SplitsJustified(lo, hi) ==
  \/ lo = hi
  \/ \E m \in lo..(hi - 1) :
       LET a == refinedClusterSegments[lo].start
           b == refinedClusterSegments[hi].end
           e == refinedClusterSegments[m].end
       IN /\ e - a >= 3 /\ b - e >= 3
          /\ \A i \in (a + 3)..(b - 3) : prominence[e] <= prominence[i]
          /\ prominence[e] * 100 <= 55 * Min(LargestIn(a, e - 1), LargestIn(e + 1, b))
          /\ SplitsJustified(lo, m)
          /\ SplitsJustified(m + 1, hi)

\* The refined pieces lying inside the raw segment r.
PiecesOf(r) ==
  {k \in 1..Len(refinedClusterSegments) :
     /\ rawClusterSegments[r].start <= refinedClusterSegments[k].start
     /\ refinedClusterSegments[k].end <= rawClusterSegments[r].end}

\* C19: refineSegmentsByProminence splits a range only at a prominence
\* minimum 3 or more samples from both its edges whose value is at most 55%
\* of the weaker neighbouring maximum; the pieces of a segment are
\* contiguous, disjoint and cover exactly the segment, and every piece of a
\* split spans 3 samples or more.
SplitsOnlyAtDeepMinima ==
  Len(refinedClusterSegments) > 0 =>
    /\ \A k \in 1..Len(refinedClusterSegments) :
         Cardinality({r \in 1..Len(rawClusterSegments) : k \in PiecesOf(r)}) = 1
    /\ \A r \in 1..Len(rawClusterSegments) :
         LET pieces == PiecesOf(r)
             first == CHOOSE k \in pieces : \A j \in pieces : k <= j
             last == CHOOSE k \in pieces : \A j \in pieces : j <= k
         IN /\ pieces = first..last
            /\ pieces # {}
            /\ refinedClusterSegments[first].start = rawClusterSegments[r].start
            /\ refinedClusterSegments[last].end = rawClusterSegments[r].end
            /\ \A k \in first..(last - 1) :
                 refinedClusterSegments[k + 1].start = refinedClusterSegments[k].end + 1
            /\ first < last =>
                 \A k \in pieces :
                   refinedClusterSegments[k].end - refinedClusterSegments[k].start + 1 >= 3
            /\ SplitsJustified(first, last)

\* C19 witness: a segment was split, and one of its parts split again.
SegmentSplitTwice ==
  /\ Len(refinedClusterSegments) > 0
  /\ \E r \in 1..Len(rawClusterSegments) : Cardinality(PiecesOf(r)) >= 3

\* The candidates that have segments, by their place in <<cluster, score, peak>>.
WithSegments == {k \in 1..Len(candidates) : Len(candidates[k].segments) > 0}

\* C20: the selected candidate is, among the candidates with segments, the
\* first in the order cluster, score, peak of those with the largest
\* weighted score; a candidate without segments is not selected while
\* another has some, and the empty cluster candidate is the result only when
\* all three are empty.
BestNonEmptySelected ==
  Completed =>
    /\ [k \in 1..Len(candidates) |-> candidates[k].source] = <<"cluster", "score", "peak">>
    /\ IF WithSegments = {}
       THEN selected = candidates[1]
       ELSE /\ Len(selected.segments) > 0
            /\ \E k \in WithSegments :
                 /\ selected = candidates[k]
                 /\ \A j \in WithSegments :
                      /\ evaluateSegmentCandidate(candidates[j])
                           <= evaluateSegmentCandidate(candidates[k])
                      /\ j < k => evaluateSegmentCandidate(candidates[j])
                                    < evaluateSegmentCandidate(candidates[k])

\* C20 witness: the cluster and score candidates had the same, largest
\* score and the cluster candidate was selected.
TieWentToCluster ==
  /\ Completed
  /\ WithSegments # {}
  /\ {1, 2} \subseteq WithSegments
  /\ evaluateSegmentCandidate(candidates[1]) = evaluateSegmentCandidate(candidates[2])
  /\ selected = candidates[1]

\* ------------------------------------------------------------------------
\* Properties of the alert dialogs and the calculator
\* ------------------------------------------------------------------------

\* C21: once the dialog is closed and no button handler is still waiting,
\* every promise showAlert returned has been resolved, and exactly once,
\* also when showAlert was called again while an earlier alert was pending.
EveryAlertResolvedOnce ==
  (~dialog.isOpen /\ dialog.handlers = <<>>) =>
     \A p \in DOMAIN dialog.promises : dialog.promises[p].resolutions = 1

\* C22: whenever the dialog is closed, by the action button or by its own
\* onOpenChange, the promise of the showAlert call that opened it has been
\* resolved and window.__alertDialogResolve has been removed.
ClosedMeansResolvedAndRemoved ==
  ~windowDialog.isOpen =>
     /\ windowDialog.handler = 0
     /\ windowDialog.opener # 0 =>
          windowDialog.promises[windowDialog.opener] >= 1

\* C23: a confirm or cancel press, whatever its callback does, closes and
\* resolves only the alert that was showing when the button was pressed: a
\* promise is pending, or was resolved by an open-change, or by a button
\* pressed on its own alert.
ButtonClosesOnlyItsAlert ==
  \A p \in DOMAIN dialog.promises :
     dialog.promises[p].resolvedBy \in {-1, 0, p}

\* A text that parses as a number: blanks, an optional sign, then a digit or
\* a point and a digit.
StartsWithNumber(text) ==
  \E i \in DOMAIN text, b \in 0..Len(text) :
     /\ b < i
     /\ text[i] \in DigitChars
     /\ \A j \in 1..b : text[j] = " "
     /\ SubSeq(text, b + 1, i - 1) \in
          {<<>>, <<"+">>, <<"-">>, <<".">>, <<"+", ".">>, <<"-", ".">>}

\* The values the selected shape needs: both depths, the diameter of a
\* circular pool, the length and width of any other.
RequiredValues(shape) ==
  {"shallowDepth", "deepDepth"}
    \cup (IF shape = "circular" THEN {"diameter"} ELSE {"length", "width"})

\* C24: a handleCalculate call sets calculatedVolume and invokes
\* onVolumeCalculated, once and with the volume, the unit and the current
\* shape, lengthUnit and dimensions, exactly when every required value parses
\* and the computed volume is above 0; otherwise it leaves calculatedVolume
\* alone and does not invoke the callback, and it shows an alert when a
\* required value does not parse.
CalculateReportsPositiveVolumeOnly ==
  [][calculator'.runs = calculator.runs + 1 =>
       LET valid == \A f \in RequiredValues(calculator.shape) :
                       StartsWithNumber(calculator.dimensions[f])
           computed == calculator'.computed
           alerted == /\ Len(dialog'.promises) = Len(dialog.promises) + 1
                      /\ dialog'.isOpen
       IN /\ valid <=> computed # <<>>
          /\ valid <=> ~alerted
          /\ IF computed # <<>> /\ ~computed[1].threw /\ computed[1].volume > 0
               THEN /\ calculator'.calculatedVolume = <<computed[1].volume>>
                    /\ calculator'.reported =
                         Append(calculator.reported,
                                [volume |-> computed[1].volume,
                                 unit |-> calculator.unit,
                                 state |-> [shape |-> calculator.shape,
                                            lengthUnit |-> calculator.lengthUnit,
                                            dimensions |-> calculator.dimensions]])
               ELSE /\ calculator'.calculatedVolume = calculator.calculatedVolume
                    /\ calculator'.reported = calculator.reported]_vars

\* C24 (witness): a circular pool was reported although its length field
\* holds no number, and a second press reported nothing.
CircularPoolReported ==
  /\ calculator.shape = "circular"
  /\ ~StartsWithNumber(calculator.dimensions.length)
  /\ calculator.runs = 2
  /\ Len(calculator.reported) = 1

====
